---- MODULE Spec2Model ----
(***************************************************************************)
(* Settlement ledger and certificate gate of the BSV exchange server.      *)
(*                                                                         *)
(* The model follows server/src/index.ts (request handlers), the MongoDB   *)
(* BalanceStorage, trustflow/index.ts (certificate issuance, revocation,   *)
(* KycStorage), trustflow/certificate.ts and the two sanctions sources.    *)
(* Every await of a handler is one step of that handler; the steps of      *)
(* concurrently running handlers interleave.                               *)
(***************************************************************************)
EXTENDS Integers, Sequences, FiniteSets, TLC

\* ------------------------------------------------------------------------
\* Bounds of the model
\* ------------------------------------------------------------------------
MaxAmount == 2
MaxInitial == 2
NumCallers == 3
MaxBalance == 3
MaxLateness == 1
MaxCerts == 2
\* largest number of base units one swap converts (besides the spec's example)
MaxSwap == 40

\* ------------------------------------------------------------------------
\* Program constants
\* ------------------------------------------------------------------------
\* CERTIFICATE_VALIDITY_MS = 24 * 60 * 60 * 1000
CERTIFICATE_VALIDITY_MS == 86400000
\* MATCH_SCORE_THRESHOLD = 0.7, in hundredths
MATCH_SCORE_THRESHOLD == 70
\* POST /swap: const BSV_USD_RATE = 25000, const SATOSHIS_PER_BSV = 100000000
BSV_USD_RATE == 25000
SATOSHIS_PER_BSV == 100000000

\* ------------------------------------------------------------------------
\* Identities
\* ------------------------------------------------------------------------
Identities == {"alice", "bob"}
\* the identity the direct storage callers contend on
LedgerIdentities == {"alice"}
Amounts == 1..MaxAmount
Callers == 1..NumCallers

\* the exchange's own identity key (wallet.getPublicKey({ identityKey: true }))
ServerIdentityKey == "exchange"
Certifiers == {ServerIdentityKey, "other-certifier"}
DepositSlots == {1}
TrustflowSlots == {1}
SwapSlots == {1}
StatusSlots == {1}

VARIABLES
  balances,     \* the 'balances' collection: identityKey -> document
  calls,        \* direct callers of BalanceStorage: caller -> call frame
  initial,      \* history: balance each identity started with
  credited,     \* history: sum of the amounts of applied addBalance calls
  debited,      \* history: sum of the amounts of returned subtractBalance calls
  now,          \* the clock (new Date(), Date.now()), in milliseconds
  spent,        \* the chain: outpoints that have been spent
  kyc,          \* the 'kyc_records' collection: identityKey -> record
  issued,       \* history: certificates returned by POST /trustflow/verify
  revokedOk,    \* history: serial numbers whose POST /trustflow/revoke returned success
  nextSerial,   \* number of certificates created so far (randomUUID never repeats)
  dep,          \* POST /deposit requests: slot -> handler frame
  tf,           \* /trustflow requests: slot -> handler frame
  wd,           \* POST /withdraw requests: slot -> handler frame
  sw,           \* POST /swap requests: slot -> handler frame
  kvStore,      \* the LocalKVStore of storage.ts: identityKey -> stored string
  kvCalls,      \* direct callers of the LocalKVStore BalanceStorage: caller -> call frame
  st            \* GET /kyc/status and GET /trustflow/status requests: slot -> handler frame

\* Clients send a deposit and a /trustflow request one after the other: a
\* certificate request or a revocation is answered before the next deposit is
\* sent, and the other way round.
DepositsClosed == \A r \in DepositSlots : dep[r].pc = "idle"
TrustflowClosed == \A r \in TrustflowSlots : tf[r].pc = "idle"

ledgerVars == <<balances, initial, credited, debited>>
envVars == <<now, spent>>
kycVars == <<kyc, issued, revokedOk, nextSerial>>
kvVars == <<kvStore, kvCalls>>
exchangeVars == <<envVars, kycVars, dep, tf, wd, sw, kvVars, st>>
vars == <<balances, calls, initial, credited, debited, now, spent,
          kyc, issued, revokedOk, nextSerial, dep, tf, wd, sw, kvStore, kvCalls, st>>

\* ------------------------------------------------------------------------
\* BalanceStorage (MongoDB)
\* ------------------------------------------------------------------------
NoDocument == [present |-> FALSE, balance |-> 0]
BalanceDocument(b) == [present |-> TRUE, balance |-> b]

\* collection.findOne({ identityKey })
findOne(coll, identityKey) == coll[identityKey]

\* doc?.balance ?? 0
balanceOrZero(doc) == IF doc.present THEN doc.balance ELSE 0

\* getBalance: findOne, missing document reads as 0
getBalance(coll, identityKey) == balanceOrZero(findOne(coll, identityKey))

\* addBalance: findOneAndUpdate({identityKey}, {$inc: {balance: amount}}, {upsert: true})
addBalanceUpdate(coll, identityKey, amount) ==
  [coll EXCEPT ![identityKey] = BalanceDocument(balanceOrZero(@) + amount)]

\* subtractBalance, first read: throws when currentBalance < amount
subtractPrecheckFails(currentBalance, amount) == currentBalance < amount

\* a decrement filtered on the identity key alone
UnguardedDecrementFilter(doc, amount) == doc.present
\* subtractBalance, filter of the atomic decrement: { identityKey, balance: { $gte: amount } }
decrementFilterMatches(doc, amount) == doc.present /\ doc.balance >= amount

\* subtractBalance, findOneAndUpdate(filter, {$inc: {balance: -amount}})
subtractBalanceUpdate(coll, identityKey, amount) ==
  IF decrementFilterMatches(coll[identityKey], amount)
    THEN [coll EXCEPT ![identityKey] = BalanceDocument(@.balance - amount)]
    ELSE coll

\* ------------------------------------------------------------------------
\* Direct callers of the storage class
\* ------------------------------------------------------------------------
IdleCall == [op |-> "none", identityKey |-> "alice", amount |-> 0,
             pc |-> "idle", result |-> 0, error |-> "none"]

CallAddBalance(c, identityKey, amount) ==
  /\ calls[c].pc = "idle"
  /\ calls' = [calls EXCEPT ![c] = [IdleCall EXCEPT !.op = "addBalance",
                 !.identityKey = identityKey, !.amount = amount, !.pc = "add.findOneAndUpdate"]]
  /\ UNCHANGED <<ledgerVars, exchangeVars>>

AddFindOneAndUpdate(c) ==
  /\ calls[c].pc = "add.findOneAndUpdate"
  /\ LET id == calls[c].identityKey
         amount == calls[c].amount
         coll == addBalanceUpdate(balances, id, amount)
     IN /\ balances' = coll
        /\ credited' = [credited EXCEPT ![id] = @ + amount]
        /\ calls' = [calls EXCEPT ![c].pc = "returned", ![c].result = coll[id].balance]
  /\ UNCHANGED <<initial, debited, exchangeVars>>

CallSubtractBalance(c, identityKey, amount) ==
  /\ calls[c].pc = "idle"
  /\ calls' = [calls EXCEPT ![c] = [IdleCall EXCEPT !.op = "subtractBalance",
                 !.identityKey = identityKey, !.amount = amount, !.pc = "sub.findOne"]]
  /\ UNCHANGED <<ledgerVars, exchangeVars>>

SubFindOne(c) ==
  /\ calls[c].pc = "sub.findOne"
  /\ LET currentBalance == getBalance(balances, calls[c].identityKey)
     IN calls' = [calls EXCEPT
                    ![c].pc = IF subtractPrecheckFails(currentBalance, calls[c].amount)
                                THEN "thrown" ELSE "sub.findOneAndUpdate",
                    ![c].error = IF subtractPrecheckFails(currentBalance, calls[c].amount)
                                   THEN "Insufficient balance" ELSE "none"]
  /\ UNCHANGED <<ledgerVars, exchangeVars>>

SubFindOneAndUpdate(c) ==
  /\ calls[c].pc = "sub.findOneAndUpdate"
  /\ LET id == calls[c].identityKey
         amount == calls[c].amount
         matched == decrementFilterMatches(balances[id], amount)
         coll == subtractBalanceUpdate(balances, id, amount)
     IN /\ balances' = coll
        /\ debited' = [debited EXCEPT ![id] = IF matched THEN @ + amount ELSE @]
        /\ calls' = [calls EXCEPT
                       ![c].pc = IF matched THEN "returned" ELSE "thrown",
                       ![c].result = IF matched THEN coll[id].balance ELSE 0,
                       ![c].error = IF matched THEN "none"
                                    ELSE "Insufficient balance: concurrent modification detected"]
  /\ UNCHANGED <<initial, credited, exchangeVars>>

\* ------------------------------------------------------------------------
\* BalanceStorage (LocalKVStore, storage.ts) and its direct callers
\* ------------------------------------------------------------------------
\* a key that was never set: kvStore.get returns undefined
NoValue == [present |-> FALSE, numeric |-> FALSE, value |-> 0]
\* balance.toString()
balanceToString(balance) == [present |-> TRUE, numeric |-> TRUE, value |-> balance]
\* getBalance: !value reads as 0, parseInt(value, 10), NaN reads as 0; a
\* throwing kvStore.get is caught and reads as 0
kvGetBalance(store, identityKey, storeOk) ==
  IF ~ storeOk \/ ~ store[identityKey].present \/ ~ store[identityKey].numeric THEN 0
  ELSE store[identityKey].value

IdleKvCall == [op |-> "none", identityKey |-> "alice", amount |-> 0, pc |-> "idle",
               currentBalance |-> 0, result |-> 0, error |-> "none"]

\* addBalance or subtractBalance is called; getBalance is awaited
KvCall(c, op, identityKey, amount) ==
  /\ kvCalls[c].pc = "idle"
  /\ kvCalls' = [kvCalls EXCEPT ![c] = [IdleKvCall EXCEPT !.op = op,
                   !.identityKey = identityKey, !.amount = amount, !.pc = "getBalance"]]
  /\ UNCHANGED <<ledgerVars, calls, envVars, kycVars, dep, tf, wd, sw, kvStore, st>>

\* getBalance returns; subtractBalance throws when currentBalance < amount;
\* setBalance is awaited
KvGetBalance(c, storeOk) ==
  /\ kvCalls[c].pc = "getBalance"
  /\ LET call == kvCalls[c]
         currentBalance == kvGetBalance(kvStore, call.identityKey, storeOk)
     IN kvCalls' = [kvCalls EXCEPT ![c] =
          IF call.op = "subtractBalance" /\ currentBalance < call.amount
            THEN [call EXCEPT !.pc = "thrown", !.currentBalance = currentBalance,
                              !.error = "Insufficient balance"]
          ELSE [call EXCEPT !.pc = "setBalance", !.currentBalance = currentBalance]]
  /\ UNCHANGED <<ledgerVars, calls, envVars, kycVars, dep, tf, wd, sw, kvStore, st>>

\* setBalance(identityKey, newBalance) returns or throws
KvSetBalance(c, storeOk) ==
  /\ kvCalls[c].pc = "setBalance"
  /\ LET call == kvCalls[c]
         id == call.identityKey
         newBalance == IF call.op = "addBalance" THEN call.currentBalance + call.amount
                       ELSE call.currentBalance - call.amount
     IN IF storeOk
          THEN /\ kvStore' = [kvStore EXCEPT ![id] = balanceToString(newBalance)]
               /\ credited' = [credited EXCEPT ![id] =
                                 IF call.op = "addBalance" THEN @ + call.amount ELSE @]
               /\ debited' = [debited EXCEPT ![id] =
                                IF call.op = "subtractBalance" THEN @ + call.amount ELSE @]
               /\ kvCalls' = [kvCalls EXCEPT ![c].pc = "returned", ![c].result = newBalance]
          ELSE /\ kvCalls' = [kvCalls EXCEPT ![c].pc = "thrown", ![c].error = "kvStore.set"]
               /\ UNCHANGED <<kvStore, credited, debited>>
  /\ UNCHANGED <<balances, initial, calls, envVars, kycVars, dep, tf, wd, sw, st>>

\* ------------------------------------------------------------------------
\* Strings the code parses
\* ------------------------------------------------------------------------
\* the time value of an Invalid Date
NaN == -1
\* Date.toISOString(): a well-formed date string of millisecond precision
toISOString(ms) == [wellFormed |-> TRUE, ms |-> ms]
MalformedDate == [wellFormed |-> FALSE, ms |-> 0]
\* new Date(string): the time value, NaN for a string that is no date
parseDate(str) == IF str.wellFormed THEN str.ms ELSE NaN
\* a > b on two Dates: false when either is an Invalid Date
dateGreater(a, b) == a # NaN /\ b # NaN /\ a > b

\* An outpoint string is the sequence of its ':'-separated parts, each part a
\* number: part 0 is the empty string, a negative part is text that is no number.
EmptyString == 0
NullOutpoint == <<>>
\* `${anchor.txid}:${anchor.vout}`
formatOutpoint(txid, vout) == <<txid, vout>>
\* outpoint.split(':')
splitOutpoint(outpoint) == outpoint
\* parseInt(voutStr, 10)
parseInt(part) == IF part >= 0 THEN part ELSE NaN

\* ------------------------------------------------------------------------
\* trustflow/certificate.ts
\* ------------------------------------------------------------------------
NoCertificate ==
  [present |-> FALSE, subject |-> "", certifier |-> "",
   fields |-> [officialName |-> "", serialNumber |-> 0, sanctionsStatus |-> "clear",
               issuedAt |-> MalformedDate, expiresAt |-> MalformedDate],
   revocationOutpoint |-> NullOutpoint]

\* a comparison that also holds at the expiry instant itself
ExpiredFromExpiryInstant(certificate, clock) ==
  \/ dateGreater(clock, parseDate(certificate.fields.expiresAt))
  \/ (clock # NaN /\ clock = parseDate(certificate.fields.expiresAt))
\* isCertificateExpired: new Date() > new Date(certificate.fields.expiresAt)
isCertificateExpired(certificate, clock) ==
  dateGreater(clock, parseDate(certificate.fields.expiresAt))

\* the answers of the WhatsOnChain "spent" endpoint: the fetch throws, or
\* answers with a status and, when 200, the spending txid (0: null body)
NoLookup == [made |-> FALSE, throws |-> FALSE, status |-> 0, spendingTxid |-> 0]
LookupResponses(outpoint) ==
  { [made |-> TRUE, throws |-> TRUE, status |-> 0, spendingTxid |-> 0],
    [made |-> TRUE, throws |-> FALSE, status |-> 404, spendingTxid |-> 0],
    [made |-> TRUE, throws |-> FALSE, status |-> 500, spendingTxid |-> 0],
    [made |-> TRUE, throws |-> FALSE, status |-> 200,
     spendingTxid |-> IF outpoint \in spent THEN 1 ELSE 0] }

\* response.ok
responseOk(response) == response.status >= 200 /\ response.status <= 299

\* checkRevocationStatus, the outpoint's format check before the fetch
outpointWellFormed(outpoint) ==
  /\ outpoint # NullOutpoint
  /\ LET parts == splitOutpoint(outpoint)
         txid == parts[1]
         vout == IF Len(parts) >= 2 THEN parseInt(parts[2]) ELSE NaN
     IN txid # EmptyString /\ vout # NaN

\* a check that fails closed: revoked unless the lookup confirms the output unspent
RevokedUnlessConfirmedUnspent(outpoint, response) ==
  [revoked |-> outpointWellFormed(outpoint)
               /\ ~ (~ response.throws /\ responseOk(response) /\ response.spendingTxid = 0),
   error |-> "none"]
\* checkRevocationStatus, from the answer of the fetch
checkRevocationStatus(outpoint, response) ==
  IF outpoint = NullOutpoint
    THEN [revoked |-> FALSE, error |-> "No revocation outpoint"]
  ELSE IF ~ outpointWellFormed(outpoint)
    THEN [revoked |-> FALSE, error |-> "Invalid outpoint format"]
  ELSE IF response.throws
    THEN [revoked |-> FALSE, error |-> "fetch failed"]
  ELSE IF ~ responseOk(response)
    THEN IF response.status = 404
           THEN [revoked |-> FALSE, error |-> "none"]
           ELSE [revoked |-> FALSE, error |-> "WhatsOnChain API error"]
  ELSE [revoked |-> response.spendingTxid # 0, error |-> "none"]

\* ------------------------------------------------------------------------
\* trustflow/sanctions-mock.ts (the checkSanctions index.ts imports)
\* ------------------------------------------------------------------------
SANCTIONED_NAMES ==
  {"sanctioned person", "ivan blocked", "kim jong-un", "kim jong un",
   "test sanctioned", "blocked user", "vladimir sanctioned"}

Names == {"Alice Smith", "Ivan Blocked Jr"}

\* name.toLowerCase().trim()
toLowerCaseTrim(name) ==
  CASE name = "Alice Smith" -> "alice smith"
    [] name = "Ivan Blocked Jr" -> "ivan blocked jr"
    [] OTHER -> name

\* a.includes(b) on the strings of the model
includes(a, b) == a = b \/ b = "" \/ <<a, b>> \in {<<"ivan blocked jr", "ivan blocked">>}

mockCheckSanctions(name) ==
  LET normalizedName == toLowerCaseTrim(name)
      matches == {n \in SANCTIONED_NAMES : includes(normalizedName, n) \/ includes(n, normalizedName)}
  IN [sanctioned |-> matches # {}]

\* ------------------------------------------------------------------------
\* KycStorage
\* ------------------------------------------------------------------------
NoKycRecord == [present |-> FALSE, certificate |-> NoCertificate, sanctioned |-> FALSE, revoked |-> FALSE]

\* revokeKycRecord: updateOne({'certificate.fields.serialNumber': serialNumber}, {$set: {revoked: true}})
revokeKycRecord(coll, serialNumber) ==
  [i \in DOMAIN coll |->
     IF coll[i].present /\ coll[i].certificate.fields.serialNumber = serialNumber
       THEN [coll[i] EXCEPT !.revoked = TRUE]
       ELSE coll[i]]

\* ------------------------------------------------------------------------
\* The wallet's BRC29 key derivation and the hash of a public key
\* ------------------------------------------------------------------------
Prefixes == {"p1"}
Suffixes == {"s1", "s2"}
\* keyID: `${derivationPrefix} ${derivationSuffix}`
keyID(derivationPrefix, derivationSuffix) == <<derivationPrefix, derivationSuffix>>
\* wallet.getPublicKey({ protocolID: [2, '3241645161d8'], keyID, counterparty, forSelf })
getPublicKey(kid, counterparty, forSelf) ==
  [protocolID |-> "3241645161d8", keyID |-> kid, counterparty |-> counterparty, forSelf |-> forSelf]
\* PublicKey.fromString(key).toHash('hex')
toHash(publicKey) == [hash160 |-> publicKey]
\* the public-key-hashes a client can put into the first output of its payment
PublicKeyHashes ==
  {toHash(getPublicKey(keyID(p, x), i, TRUE)) : p \in Prefixes, x \in Suffixes, i \in Identities}

\* ------------------------------------------------------------------------
\* The clock and the chain
\* ------------------------------------------------------------------------
TickSizes == {1, CERTIFICATE_VALIDITY_MS}

\* the instants the model looks at: up to MaxLateness past time 0 and past the
\* end of the validity window of a certificate of time 0
ClockInstants ==
  {k : k \in 0..MaxLateness} \cup {CERTIFICATE_VALIDITY_MS + k : k \in 0..MaxLateness}

Tick(d) ==
  /\ now + d \in ClockInstants
  /\ now' = now + d
  /\ UNCHANGED <<ledgerVars, calls, spent, kycVars, dep, tf, wd, sw, kvVars, st>>

\* somebody spends an output on the chain
SpendOutpoint(outpoint) ==
  /\ outpoint \notin spent
  /\ spent' = spent \cup {outpoint}
  /\ UNCHANGED <<ledgerVars, calls, now, kycVars, dep, tf, wd, sw, kvVars, st>>

\* ------------------------------------------------------------------------
\* POST /deposit
\* ------------------------------------------------------------------------
NoTransaction == [present |-> FALSE, satoshis |-> 0, pkh |-> toHash(getPublicKey(keyID("p1", "s1"), "alice", TRUE))]
NoInstructions == [present |-> FALSE, derivationPrefix |-> "p1", derivationSuffix |-> "s1"]

IdleDeposit ==
  [pc |-> "idle", identityKey |-> "alice", certificate |-> NoCertificate, log |-> <<>>,
   status |-> 0, error |-> "none", expiryCheckedAt |-> 0, lookup |-> NoLookup, revoked |-> FALSE,
   transaction |-> NoTransaction, customInstructions |-> NoInstructions,
   accepted |-> FALSE, internalized |-> FALSE, creditedAmount |-> 0,
   \* args.amount, the amount the body declares
   amount |-> 0,
   \* history: the presented certificate's revocation had already returned success
   revokedBefore |-> FALSE]

\* res.status(status).json({ error }): the request is over
respond(frame, status, error) == [frame EXCEPT !.pc = "done", !.status = status, !.error = error]
logged(frame, events) == [frame EXCEPT !.log = @ \o events]

\* checks 1 and 2: a certificate was presented, and its subject is the requester
presentationGate(certificate, senderIdentityKey) ==
  IF ~ certificate.present THEN "Identity Certificate required"
  ELSE IF certificate.subject # senderIdentityKey THEN "Certificate subject mismatch"
  ELSE "pass"

\* the two checks in the other order
ExpiryBeforeIssuerGate(certificate, serverIdentityKey, clock) ==
  IF isCertificateExpired(certificate, clock) THEN "Certificate expired"
  ELSE IF certificate.certifier # serverIdentityKey THEN "Invalid certificate issuer"
  ELSE "pass"
\* checks 3 and 4: the certifier is this exchange, and the certificate is not expired
issuerExpiryGate(certificate, serverIdentityKey, clock) ==
  IF certificate.certifier # serverIdentityKey THEN "Invalid certificate issuer"
  ELSE IF isCertificateExpired(certificate, clock) THEN "Certificate expired"
  ELSE "pass"

\* a handler that compares nothing
AnyHashAccepted(derivedPubKey, pkh) == TRUE
\* the comparison of the derived key's hash with the first output's public-key-hash
pkhMatches(derivedPubKey, pkh) == toHash(derivedPubKey) = pkh

\* a handler that ignores result.accepted
AnyInternalizationAccepted(result) == result # "throws"
\* the handler's reading of wallet.internalizeAction's result
internalizationAccepted(result) == result = "accepted"

DepositBegin(r, senderIdentityKey, certificate) ==
  /\ dep[r].pc = "idle"
  /\ TrustflowClosed
  /\ getBalance(balances, senderIdentityKey) + MaxAmount <= MaxBalance
  /\ LET frame == [IdleDeposit EXCEPT !.identityKey = senderIdentityKey,
                     !.certificate = certificate,
                     !.revokedBefore = (certificate \in issued /\
                                        certificate.fields.serialNumber \in revokedOk)]
         gate == presentationGate(certificate, senderIdentityKey)
     IN dep' = [dep EXCEPT ![r] =
          IF gate = "Identity Certificate required"
            THEN respond(logged(frame, <<"certificate?">>), 403, gate)
          ELSE IF gate # "pass"
            THEN respond(logged(frame, <<"certificate?", "subject?">>), 403, gate)
          ELSE [logged(frame, <<"certificate?", "subject?", "wallet.getPublicKey(identityKey)">>)
                  EXCEPT !.pc = "getIdentityKey"]]
  /\ UNCHANGED <<ledgerVars, calls, envVars, kycVars, tf, wd, sw, kvVars, st>>

\* wallet.getPublicKey({ identityKey: true }) returns; checks 3 and 4
DepositIdentityKey(r, walletOk) ==
  /\ dep[r].pc = "getIdentityKey"
  /\ LET frame == dep[r]
         gate == issuerExpiryGate(frame.certificate, ServerIdentityKey, now)
     IN dep' = [dep EXCEPT ![r] =
          IF ~ walletOk THEN respond(frame, 500, "Failed to process deposit")
          ELSE IF gate = "Invalid certificate issuer"
            THEN respond(logged(frame, <<"certifier?">>), 403, gate)
          ELSE IF gate # "pass"
            THEN respond([logged(frame, <<"certifier?", "expired?">>) EXCEPT !.expiryCheckedAt = now], 403, gate)
          ELSE IF frame.certificate.revocationOutpoint # NullOutpoint
            THEN [logged(frame, <<"certifier?", "expired?", "checkRevocationStatus">>)
                    EXCEPT !.pc = "checkRevocationStatus", !.expiryCheckedAt = now]
          ELSE [logged(frame, <<"certifier?", "expired?", "checkSanctions">>)
                  EXCEPT !.pc = "checkSanctions", !.expiryCheckedAt = now]]
  /\ UNCHANGED <<ledgerVars, calls, envVars, kycVars, tf, wd, sw, kvVars, st>>

\* checkRevocationStatus(certificate.revocationOutpoint) returns
DepositRevocation(r) ==
  /\ dep[r].pc = "checkRevocationStatus"
  /\ LET frame == dep[r]
         outpoint == frame.certificate.revocationOutpoint
     IN \E response \in (IF outpointWellFormed(outpoint) THEN LookupResponses(outpoint) ELSE {NoLookup}) :
          LET revocationCheck == checkRevocationStatus(outpoint, response)
          IN dep' = [dep EXCEPT ![r] =
               IF revocationCheck.revoked
                 THEN [logged(frame, <<"kycStorage.revokeKycRecord">>)
                         EXCEPT !.pc = "revokeKycRecord", !.lookup = response, !.revoked = TRUE]
                 ELSE [logged(frame, <<"checkSanctions">>)
                         EXCEPT !.pc = "checkSanctions", !.lookup = response]]
  /\ UNCHANGED <<ledgerVars, calls, envVars, kycVars, tf, wd, sw, kvVars, st>>

\* _kycStorage.revokeKycRecord(serialNumber).catch(() => {}), then 403
DepositMarkRevoked(r) ==
  /\ dep[r].pc = "revokeKycRecord"
  /\ kyc' = revokeKycRecord(kyc, dep[r].certificate.fields.serialNumber)
  /\ dep' = [dep EXCEPT ![r] = respond(@, 403, "Certificate has been revoked")]
  /\ UNCHANGED <<ledgerVars, calls, envVars, issued, revokedOk, nextSerial, tf, wd, sw, kvVars, st>>

\* The body of a request is fixed when the request is sent, and nothing but its
\* handler reads it: each field of the body is drawn at the step that first
\* depends on it.

\* checkSanctions(officialName) returns; then the presence of the body's fields
\* is checked and the transaction is parsed
DepositSanctions(r, hasTransaction, hasInstructions) ==
  /\ dep[r].pc = "checkSanctions"
  /\ LET frame == dep[r]
         sanctionsRecheck == mockCheckSanctions(frame.certificate.fields.officialName)
     IN /\ sanctionsRecheck.sanctioned => hasTransaction /\ hasInstructions
        /\ dep' = [dep EXCEPT ![r] =
             IF sanctionsRecheck.sanctioned
               THEN respond(frame, 403, "Deposit blocked: User appears on sanctions list")
             ELSE IF ~ hasTransaction \/ ~ hasInstructions
               THEN respond([frame EXCEPT !.transaction.present = hasTransaction,
                               !.customInstructions.present = hasInstructions],
                            400, "Missing required fields: transaction, customInstructions")
             ELSE [logged(frame, <<"wallet.getPublicKey(BRC29)">>)
                     EXCEPT !.pc = "getPublicKey", !.transaction.present = TRUE,
                            !.customInstructions.present = TRUE]]
  /\ UNCHANGED <<ledgerVars, calls, envVars, kycVars, tf, wd, sw, kvVars, st>>

\* wallet.getPublicKey({ protocolID, keyID, counterparty, forSelf: true }) returns;
\* the hash comparison
DepositDerive(r, walletOk, derivationPrefix, derivationSuffix, pkh) ==
  /\ dep[r].pc = "getPublicKey"
  /\ LET frame == [dep[r] EXCEPT !.customInstructions.derivationPrefix = derivationPrefix,
                     !.customInstructions.derivationSuffix = derivationSuffix,
                     !.transaction.pkh = pkh]
         derivedPubKey == getPublicKey(keyID(derivationPrefix, derivationSuffix),
                                       frame.identityKey, TRUE)
     IN dep' = [dep EXCEPT ![r] =
          IF ~ walletOk THEN respond(frame, 500, "Failed to process deposit")
          ELSE IF ~ pkhMatches(derivedPubKey, frame.transaction.pkh)
            THEN respond(frame, 400, "PublicKey Hash Mismatch")
          ELSE [logged(frame, <<"wallet.internalizeAction">>) EXCEPT !.pc = "internalizeAction"]]
  /\ UNCHANGED <<ledgerVars, calls, envVars, kycVars, tf, wd, sw, kvVars, st>>

\* wallet.internalizeAction(params) returns
DepositInternalize(r, result) ==
  /\ dep[r].pc = "internalizeAction"
  /\ LET frame == [dep[r] EXCEPT !.accepted = (result = "accepted"),
                                 !.internalized = (result = "accepted")]
     IN dep' = [dep EXCEPT ![r] =
          IF result = "throws" THEN respond(frame, 500, "Failed to process deposit")
          ELSE IF ~ internalizationAccepted(result)
            THEN respond(frame, 400, "Transaction was not accepted")
          ELSE [logged(frame, <<"addBalance">>) EXCEPT !.pc = "addBalance"]]
  /\ UNCHANGED <<ledgerVars, calls, envVars, kycVars, tf, wd, sw, kvVars, st>>

\* a handler that credits what the body declares
DeclaredAmount(transaction, amount) == amount
\* const depositAmount = transaction.outputs[0].satoshis
depositAmountOf(transaction, amount) == transaction.satoshis

\* _balanceStorage.addBalance(senderIdentityKey, depositAmount) returns
DepositCredit(r, storeOk, satoshis, amount) ==
  /\ dep[r].pc = "addBalance"
  /\ LET frame == [dep[r] EXCEPT !.transaction.satoshis = satoshis, !.amount = amount]
         depositAmount == depositAmountOf(frame.transaction, frame.amount)
     IN IF storeOk
          THEN /\ balances' = addBalanceUpdate(balances, frame.identityKey, depositAmount)
               /\ credited' = [credited EXCEPT ![frame.identityKey] = @ + depositAmount]
               /\ dep' = [dep EXCEPT ![r] =
                    respond([frame EXCEPT !.creditedAmount = depositAmount], 200, "none")]
          ELSE /\ dep' = [dep EXCEPT ![r] = respond(frame, 500, "Failed to process deposit")]
               /\ UNCHANGED <<balances, credited>>
  /\ UNCHANGED <<initial, debited, calls, envVars, kycVars, tf, wd, sw, kvVars, st>>

\* the response has been sent: the request's frame is gone
DepositClose(r) ==
  /\ dep[r].pc = "done"
  /\ dep' = [dep EXCEPT ![r] = IdleDeposit]
  /\ UNCHANGED <<ledgerVars, calls, envVars, kycVars, tf, wd, sw, kvVars, st>>

\* ------------------------------------------------------------------------
\* The certificate gate of POST /deposit, with certificates as clients present them
\* ------------------------------------------------------------------------
\* outpoint strings a presented certificate can carry: none, "1:0", and "7" (no ':')
PresentedOutpoints == {NullOutpoint, formatOutpoint(1, 0), <<7>>}
ChainOutpoints == {formatOutpoint(1, 0)}

PresentedCertificates ==
  {NoCertificate} \cup
  { [present |-> TRUE, subject |-> s, certifier |-> c,
     fields |-> [officialName |-> n, serialNumber |-> 1, sanctionsStatus |-> "clear",
                 issuedAt |-> toISOString(0), expiresAt |-> e],
     revocationOutpoint |-> o] :
    s \in Identities, c \in Certifiers, n \in Names,
    e \in {toISOString(CERTIFICATE_VALIDITY_MS), MalformedDate}, o \in PresentedOutpoints }

\* ------------------------------------------------------------------------
\* POST /withdraw
\* ------------------------------------------------------------------------
WithdrawSlots == {1, 2}

IdleWithdraw ==
  [pc |-> "idle", identityKey |-> "alice", amountIsNumber |-> TRUE, amount |-> 0,
   log |-> <<>>, status |-> 0, error |-> "none", details |-> "none",
   currentBalance |-> 0, constructed |-> FALSE, debitedAmount |-> 0, newBalance |-> 0]

\* typeof amount !== 'number' || Number.isNaN(amount) || amount <= 0
invalidAmount(amountIsNumber, amount) == ~ amountIsNumber \/ amount <= 0

\* the catch block of the handler
withdrawFailed(frame, message) ==
  [respond(frame, 500, "Failed to process withdrawal") EXCEPT !.details = message]

\* the request arrives authenticated; wallet.getPublicKey({ identityKey: true }) is awaited
WithdrawBegin(r, identityKey) ==
  /\ wd[r].pc = "idle"
  /\ wd' = [wd EXCEPT ![r] =
       [logged([IdleWithdraw EXCEPT !.identityKey = identityKey],
               <<"wallet.getPublicKey(identityKey)">>) EXCEPT !.pc = "getIdentityKey"]]
  /\ UNCHANGED <<ledgerVars, calls, envVars, kycVars, dep, tf, sw, kvVars, st>>

\* wallet.getPublicKey({ identityKey: true }) returns; the amount is validated
WithdrawIdentityKey(r, walletOk, amountIsNumber, amount) ==
  /\ wd[r].pc = "getIdentityKey"
  /\ LET frame == [wd[r] EXCEPT !.amountIsNumber = amountIsNumber, !.amount = amount]
     IN wd' = [wd EXCEPT ![r] =
          IF ~ walletOk THEN withdrawFailed(frame, "wallet")
          ELSE IF invalidAmount(amountIsNumber, amount)
            THEN respond(logged(frame, <<"amount?">>), 400, "Invalid amount")
          ELSE [logged(frame, <<"amount?", "getBalance">>) EXCEPT !.pc = "getBalance"]]
  /\ UNCHANGED <<ledgerVars, calls, envVars, kycVars, dep, tf, sw, kvVars, st>>

\* a check that only refuses an empty account
ShortOnlyWhenEmpty(currentBalance, amount) == currentBalance <= 0
\* if (currentBalance < amount)
balanceShort(currentBalance, amount) == currentBalance < amount

\* _balanceStorage.getBalance(identityKey) returns (0 when the store threw: the
\* method catches); the balance check
WithdrawGetBalance(r, storeOk) ==
  /\ wd[r].pc = "getBalance"
  /\ LET currentBalance == IF storeOk THEN getBalance(balances, wd[r].identityKey) ELSE 0
         frame == [wd[r] EXCEPT !.currentBalance = currentBalance]
     IN wd' = [wd EXCEPT ![r] =
          IF balanceShort(currentBalance, frame.amount)
            THEN respond(frame, 400, "Insufficient balance")
          ELSE [logged(frame, <<"wallet.getPublicKey(BRC29)">>) EXCEPT !.pc = "getPublicKey"]]
  /\ UNCHANGED <<ledgerVars, calls, envVars, kycVars, dep, tf, sw, kvVars, st>>

\* wallet.getPublicKey({ protocolID, keyID, counterparty }) returns
WithdrawDerive(r, walletOk) ==
  /\ wd[r].pc = "getPublicKey"
  /\ wd' = [wd EXCEPT ![r] =
       IF ~ walletOk THEN withdrawFailed(wd[r], "wallet")
       ELSE [logged(wd[r], <<"wallet.createAction">>) EXCEPT !.pc = "createAction"]]
  /\ UNCHANGED <<ledgerVars, calls, envVars, kycVars, dep, tf, sw, kvVars, st>>

\* wallet.createAction({ outputs: [{ satoshis: amount, ... }] }) returns: the
\* payment exists; subtractBalance is called
WithdrawCreateAction(r, walletOk) ==
  /\ wd[r].pc = "createAction"
  /\ wd' = [wd EXCEPT ![r] =
       IF ~ walletOk THEN withdrawFailed(wd[r], "wallet")
       ELSE [logged(wd[r], <<"subtractBalance">>)
               EXCEPT !.pc = "sub.findOne", !.constructed = TRUE]]
  /\ UNCHANGED <<ledgerVars, calls, envVars, kycVars, dep, tf, sw, kvVars, st>>

\* subtractBalance, first read
WithdrawSubFindOne(r) ==
  /\ wd[r].pc = "sub.findOne"
  /\ LET currentBalance == getBalance(balances, wd[r].identityKey)
     IN wd' = [wd EXCEPT ![r] =
          IF subtractPrecheckFails(currentBalance, wd[r].amount)
            THEN withdrawFailed(wd[r], "Insufficient balance")
          ELSE [wd[r] EXCEPT !.pc = "sub.findOneAndUpdate"]]
  /\ UNCHANGED <<ledgerVars, calls, envVars, kycVars, dep, tf, sw, kvVars, st>>

\* a handler whose last step throws after the debit
ThrowsAfterDebit(frame, amount, newBalance) == withdrawFailed(frame, "response")
\* res.json({ success: true, payment, amount, newBalance, txid }): nothing after
\* subtractBalance can fail
withdrawSucceeded(frame, amount, newBalance) ==
  respond([frame EXCEPT !.debitedAmount = amount, !.newBalance = newBalance], 200, "none")

\* subtractBalance, atomic decrement; then the success response
WithdrawSubFindOneAndUpdate(r) ==
  /\ wd[r].pc = "sub.findOneAndUpdate"
  /\ LET id == wd[r].identityKey
         amount == wd[r].amount
         matched == decrementFilterMatches(balances[id], amount)
         coll == subtractBalanceUpdate(balances, id, amount)
     IN /\ balances' = coll
        /\ debited' = [debited EXCEPT ![id] = IF matched THEN @ + amount ELSE @]
        /\ wd' = [wd EXCEPT ![r] =
             IF matched
               THEN withdrawSucceeded(wd[r], amount, coll[id].balance)
             ELSE withdrawFailed(wd[r], "Insufficient balance: concurrent modification detected")]
  /\ UNCHANGED <<initial, credited, calls, envVars, kycVars, dep, tf, sw, kvVars, st>>

\* the response has been sent: the request's frame is gone
WithdrawClose(r) ==
  /\ wd[r].pc = "done"
  /\ wd' = [wd EXCEPT ![r] = IdleWithdraw]
  /\ UNCHANGED <<ledgerVars, calls, envVars, kycVars, dep, tf, sw, kvVars, st>>

\* ------------------------------------------------------------------------
\* The yente sanctions source (checkSanctions of trustflow/sanctions)
\* ------------------------------------------------------------------------
\* what POST /match/default can do: the fetch throws, a non-OK status, or a 200
\* whose first result (if any) has a score, in hundredths
YenteResponses ==
  {[throws |-> TRUE, status |-> 0, hasMatch |-> FALSE, score |-> 0],
   [throws |-> FALSE, status |-> 500, hasMatch |-> FALSE, score |-> 0],
   [throws |-> FALSE, status |-> 200, hasMatch |-> FALSE, score |-> 0]} \cup
  {[throws |-> FALSE, status |-> 200, hasMatch |-> TRUE, score |-> s] :
     s \in {MATCH_SCORE_THRESHOLD - 1, MATCH_SCORE_THRESHOLD}}

\* checkSanctions(name): sanctioned = !!topMatch && topMatch.score >= MATCH_SCORE_THRESHOLD;
\* any error fails open
yenteCheckSanctions(response) ==
  IF response.throws \/ response.status # 200
    THEN [sanctioned |-> FALSE, source |-> "opensanctions-yente (unavailable)"]
    ELSE [sanctioned |-> response.hasMatch /\ response.score >= MATCH_SCORE_THRESHOLD,
          source |-> "opensanctions-yente"]

\* ------------------------------------------------------------------------
\* createKycCertificate and KycStorage reads and writes
\* ------------------------------------------------------------------------
\* createKycCertificate(subject, certifier, officialName, sanctionsStatus) at time clock;
\* serialNumber stands for the fresh randomUUID()
\* a constructor that counts the validity window in seconds
ValidityInSeconds(subjectIdentityKey, certifierIdentityKey, officialName, sanctionsStatus, clock, serialNumber) ==
  [present |-> TRUE, subject |-> subjectIdentityKey, certifier |-> certifierIdentityKey,
   fields |-> [officialName |-> officialName, serialNumber |-> serialNumber,
               sanctionsStatus |-> sanctionsStatus, issuedAt |-> toISOString(clock),
               expiresAt |-> toISOString(clock + (CERTIFICATE_VALIDITY_MS \div 1000))],
   revocationOutpoint |-> NullOutpoint]
createKycCertificate(subjectIdentityKey, certifierIdentityKey, officialName, sanctionsStatus, clock, serialNumber) ==
  [present |-> TRUE, subject |-> subjectIdentityKey, certifier |-> certifierIdentityKey,
   fields |-> [officialName |-> officialName, serialNumber |-> serialNumber,
               sanctionsStatus |-> sanctionsStatus, issuedAt |-> toISOString(clock),
               expiresAt |-> toISOString(clock + CERTIFICATE_VALIDITY_MS)],
   revocationOutpoint |-> NullOutpoint]

\* saveKycRecord: updateOne({identityKey}, {$set: {...record}}, {upsert: true});
\* fields the record does not carry ('revoked') keep their stored value
saveKycRecord(coll, identityKey, certificate, sanctionsResult) ==
  [coll EXCEPT ![identityKey] =
     [present |-> TRUE, certificate |-> certificate,
      sanctioned |-> sanctionsResult.sanctioned, revoked |-> @.revoked]]

\* getKycRecordBySerial: findOne({'certificate.fields.serialNumber': serialNumber})
getKycRecordBySerial(coll, serialNumber) ==
  LET found == {i \in DOMAIN coll :
                  coll[i].present /\ coll[i].certificate.fields.serialNumber = serialNumber}
  IN IF found = {} THEN NoKycRecord ELSE coll[CHOOSE i \in found : TRUE]

\* ------------------------------------------------------------------------
\* POST /trustflow/verify and POST /trustflow/revoke/:serialNumber
\* ------------------------------------------------------------------------
Requesters == Identities \cup {ServerIdentityKey}
\* authorization.timestamp, in seconds relative to the server's clock
TimestampOffsets == {-301, 0, 300}
\* signature strings by length: absent, too short, long enough
SignatureLengths == {0, 9, 10}

NoAuthorization == [present |-> FALSE, subject |-> "alice", verifier |-> ServerIdentityKey,
                    officialName |-> "Alice Smith", timestamp |-> 0]
NoSanctionsResult == [sanctioned |-> FALSE, source |-> "none"]

IdleTrustflow ==
  [pc |-> "idle", route |-> "none", identityKey |-> "alice", authorization |-> NoAuthorization,
   signatureLength |-> 0, sanctionsResult |-> NoSanctionsResult, certificate |-> NoCertificate,
   serialNumber |-> 0, record |-> NoKycRecord, anchorTx |-> FALSE,
   log |-> <<>>, status |-> 0, error |-> "none"]

\* Math.abs(Math.floor(Date.now() / 1000) - timestamp) > 5 * 60
timestampStale(clock, timestamp) ==
  LET nowSeconds == clock \div 1000
      distance == IF nowSeconds >= timestamp THEN nowSeconds - timestamp ELSE timestamp - nowSeconds
  IN distance > 5 * 60

\* verifySignature: !signature || signature.length < 10 is the only rejection
verifySignature(signatureLength) == ~ (signatureLength = 0 \/ signatureLength < 10)

\* a gate that checks the signature before the timestamp
SignatureBeforeTimestamp(authorization, signatureLength, requester, serverIdentityKey, clock) ==
  IF authorization.verifier # serverIdentityKey
    THEN "Authorization verifier does not match this exchange"
  ELSE IF authorization.subject # requester
    THEN "Authorization subject does not match authenticated user"
  ELSE IF ~ verifySignature(signatureLength)
    THEN "Invalid signature on authorization"
  ELSE IF timestampStale(clock, authorization.timestamp)
    THEN "Authorization timestamp is too old or in the future"
  ELSE "pass"
\* checks 1 to 4 of POST /verify
authorizationGate(authorization, signatureLength, requester, serverIdentityKey, clock) ==
  IF authorization.verifier # serverIdentityKey
    THEN "Authorization verifier does not match this exchange"
  ELSE IF authorization.subject # requester
    THEN "Authorization subject does not match authenticated user"
  ELSE IF timestampStale(clock, authorization.timestamp)
    THEN "Authorization timestamp is too old or in the future"
  ELSE IF ~ verifySignature(signatureLength)
    THEN "Invalid signature on authorization"
  ELSE "pass"

\* the request arrives; the presence of authorization and signature is checked
VerifyBegin(r, requester, hasAuthorization, signatureLength) ==
  /\ tf[r].pc = "idle"
  /\ DepositsClosed
  /\ nextSerial < MaxCerts
  /\ LET frame == [IdleTrustflow EXCEPT !.route = "verify", !.identityKey = requester,
                     !.authorization.present = hasAuthorization,
                     !.signatureLength = signatureLength]
     IN tf' = [tf EXCEPT ![r] =
          IF ~ hasAuthorization \/ signatureLength = 0
            THEN respond(frame, 400, "Missing authorization or signature")
          ELSE [logged(frame, <<"wallet.getPublicKey(identityKey)">>) EXCEPT !.pc = "getIdentityKey"]]
  /\ UNCHANGED <<ledgerVars, calls, envVars, kycVars, dep, wd, sw, kvVars, st>>

\* wallet.getPublicKey({ identityKey: true }) returns; checks 1 to 4
VerifyIdentityKey(r, walletOk, subject, verifier, officialName, offset) ==
  /\ tf[r].pc = "getIdentityKey"
  \* a field of the body is drawn when the first check that reads it is reached
  /\ (~ walletOk \/ verifier # ServerIdentityKey) => subject = NoAuthorization.subject
  /\ (~ walletOk \/ verifier # ServerIdentityKey \/ subject # tf[r].identityKey) =>
       offset = 0 /\ officialName = NoAuthorization.officialName
  /\ (timestampStale(now, (now \div 1000) + offset) \/ ~ verifySignature(tf[r].signatureLength)) =>
       officialName = NoAuthorization.officialName
  /\ LET authorization == [present |-> TRUE, subject |-> subject, verifier |-> verifier,
                           officialName |-> officialName,
                           timestamp |-> (now \div 1000) + offset]
         frame == [tf[r] EXCEPT !.authorization = authorization]
         gate == authorizationGate(authorization, frame.signatureLength, frame.identityKey,
                                   ServerIdentityKey, now)
     IN tf' = [tf EXCEPT ![r] =
          IF ~ walletOk
            THEN respond(frame, 500, "Internal server error during verification")
          ELSE IF gate # "pass" THEN respond(logged(frame, <<"authorization?">>), 400, gate)
          ELSE [logged(frame, <<"authorization?", "checkSanctions">>)
                  EXCEPT !.pc = "checkSanctions"]]
  /\ UNCHANGED <<ledgerVars, calls, envVars, kycVars, dep, wd, sw, kvVars, st>>

\* checkSanctions(officialName) returns; createKycCertificate; createRevocationAnchor is awaited
VerifySanctions(r, response) ==
  /\ tf[r].pc = "checkSanctions"
  /\ LET frame == tf[r]
         sanctionsResult == yenteCheckSanctions(response)
         certificate == createKycCertificate(frame.authorization.subject, ServerIdentityKey,
                          frame.authorization.officialName,
                          IF sanctionsResult.sanctioned THEN "matched" ELSE "clear",
                          now, nextSerial + 1)
     IN /\ tf' = [tf EXCEPT ![r] =
             [logged(frame, <<"createKycCertificate", "createRevocationAnchor">>)
                EXCEPT !.pc = "createRevocationAnchor", !.sanctionsResult = sanctionsResult,
                       !.certificate = certificate]]
        /\ nextSerial' = nextSerial + 1
  /\ UNCHANGED <<ledgerVars, calls, envVars, kyc, issued, revokedOk, dep, wd, sw, kvVars, st>>

\* a handler whose certificate names an anchor even when none was created
OutpointWithoutAnchor(created, txid, vout, outpoint) == formatOutpoint(txid, vout)
\* certificate.revocationOutpoint after the try/catch around createRevocationAnchor:
\* assigned from the anchor when it was created, left as it was when the call threw
anchoredOutpoint(created, txid, vout, outpoint) ==
  IF created THEN formatOutpoint(txid, vout) ELSE outpoint

\* createRevocationAnchor returns { txid, vout: 0, tx } or throws (caught);
\* saveKycRecord is awaited
VerifyAnchor(r, walletOk) ==
  /\ tf[r].pc = "createRevocationAnchor"
  /\ LET frame == tf[r]
         anchorTxid == frame.certificate.fields.serialNumber
     IN tf' = [tf EXCEPT ![r] =
          [logged(frame, <<"saveKycRecord">>)
             EXCEPT !.pc = "saveKycRecord",
                    !.anchorTx = walletOk,
                    !.certificate.revocationOutpoint =
                       anchoredOutpoint(walletOk, anchorTxid, 0, @)]]
  /\ UNCHANGED <<ledgerVars, calls, envVars, kycVars, dep, wd, sw, kvVars, st>>

\* kycStorage.saveKycRecord(kycRecord) returns; the certificate is returned
VerifySave(r, storeOk) ==
  /\ tf[r].pc = "saveKycRecord"
  /\ LET frame == tf[r]
     IN IF storeOk
          THEN /\ kyc' = saveKycRecord(kyc, frame.authorization.subject, frame.certificate,
                                       frame.sanctionsResult)
               /\ issued' = issued \cup {frame.certificate}
               /\ tf' = [tf EXCEPT ![r] = respond(frame, 200, "none")]
          ELSE /\ tf' = [tf EXCEPT ![r] =
                    respond(frame, 500, "Internal server error during verification")]
               /\ UNCHANGED <<kyc, issued>>
  /\ UNCHANGED <<ledgerVars, calls, envVars, revokedOk, nextSerial, dep, wd, sw, kvVars, st>>

\* the revoke request arrives; getKycRecordBySerial is awaited
RevokeBegin(r, requester, serialNumber) ==
  /\ tf[r].pc = "idle"
  /\ DepositsClosed
  /\ tf' = [tf EXCEPT ![r] =
       [logged([IdleTrustflow EXCEPT !.route = "revoke", !.identityKey = requester,
                                     !.serialNumber = serialNumber],
               <<"getKycRecordBySerial">>) EXCEPT !.pc = "getKycRecordBySerial"]]
  /\ UNCHANGED <<ledgerVars, calls, envVars, kycVars, dep, wd, sw, kvVars, st>>

\* getKycRecordBySerial returns
RevokeLookup(r, storeOk) ==
  /\ tf[r].pc = "getKycRecordBySerial"
  /\ LET record == getKycRecordBySerial(kyc, tf[r].serialNumber)
         frame == [tf[r] EXCEPT !.record = record]
     IN tf' = [tf EXCEPT ![r] =
          IF ~ storeOk THEN respond(tf[r], 500, "Failed to revoke certificate")
          ELSE IF ~ record.present THEN respond(frame, 404, "Certificate not found")
          ELSE [logged(frame, <<"wallet.getPublicKey(identityKey)">>)
                  EXCEPT !.pc = "revoke.getIdentityKey"]]
  /\ UNCHANGED <<ledgerVars, calls, envVars, kycVars, dep, wd, sw, kvVars, st>>

\* a handler that lets every authenticated requester revoke
AnyRequesterAuthorized(identityKey, record, serverIdentityKey) == TRUE
\* the requester must be the subject or the certifier
revokeAuthorized(identityKey, record, serverIdentityKey) ==
  ~ (identityKey # record.certificate.subject /\ identityKey # serverIdentityKey)

\* wallet.getPublicKey({ identityKey: true }) returns; the authorization check
RevokeAuthorize(r, walletOk) ==
  /\ tf[r].pc = "revoke.getIdentityKey"
  /\ tf' = [tf EXCEPT ![r] =
       IF ~ walletOk THEN respond(tf[r], 500, "Failed to revoke certificate")
       ELSE IF ~ revokeAuthorized(tf[r].identityKey, tf[r].record, ServerIdentityKey)
         THEN respond(logged(tf[r], <<"authorized?">>), 403,
                      "Only the certificate subject or certifier can revoke")
       ELSE [logged(tf[r], <<"authorized?", "revokeKycRecord">>) EXCEPT !.pc = "revokeKycRecord"]]
  /\ UNCHANGED <<ledgerVars, calls, envVars, kycVars, dep, wd, sw, kvVars, st>>

\* kycStorage.revokeKycRecord(serialNumber) returns; 'Certificate revoked successfully'
RevokeMark(r, storeOk) ==
  /\ tf[r].pc = "revokeKycRecord"
  /\ IF storeOk
       THEN /\ kyc' = revokeKycRecord(kyc, tf[r].serialNumber)
            /\ revokedOk' = revokedOk \cup {tf[r].serialNumber}
            /\ tf' = [tf EXCEPT ![r] = respond(tf[r], 200, "none")]
       ELSE /\ tf' = [tf EXCEPT ![r] = respond(tf[r], 500, "Failed to revoke certificate")]
            /\ UNCHANGED <<kyc, revokedOk>>
  /\ UNCHANGED <<ledgerVars, calls, envVars, issued, nextSerial, dep, wd, sw, kvVars, st>>

\* the response has been sent: the request's frame is gone
TrustflowClose(r) ==
  /\ tf[r].pc = "done"
  /\ tf' = [tf EXCEPT ![r] = IdleTrustflow]
  /\ UNCHANGED <<ledgerVars, calls, envVars, kycVars, dep, wd, sw, kvVars, st>>

\* ------------------------------------------------------------------------
\* GET /kyc/status and GET /trustflow/status/:serialNumber
\* ------------------------------------------------------------------------
NoKycResult == [valid |-> FALSE, reason |-> "none", record |-> NoKycRecord]

\* KycStorage.hasValidKyc: getKycRecord is findOne({ identityKey })
hasValidKyc(coll, identityKey, clock) ==
  LET record == coll[identityKey]
  IN IF ~ record.present
       THEN [valid |-> FALSE, reason |-> "No KYC record found", record |-> NoKycRecord]
     ELSE IF record.revoked
       THEN [valid |-> FALSE, reason |-> "KYC certificate has been revoked", record |-> record]
     ELSE IF dateGreater(clock, parseDate(record.certificate.fields.expiresAt))
       THEN [valid |-> FALSE, reason |-> "KYC certificate has expired", record |-> record]
     ELSE IF record.certificate.fields.sanctionsStatus = "matched"
       THEN [valid |-> FALSE, reason |-> "User is on sanctions list", record |-> record]
     ELSE [valid |-> TRUE, reason |-> "none", record |-> record]

\* a handler that looks at the sanctions outcome before the expiry
SanctionedBeforeExpired(kycResult, clock) ==
  IF kycResult.record.revoked THEN [status |-> "revoked", canDeposit |-> FALSE]
  ELSE IF kycResult.record.certificate.fields.sanctionsStatus = "matched"
    THEN [status |-> "sanctioned", canDeposit |-> FALSE]
  ELSE IF isCertificateExpired(kycResult.record.certificate, clock)
    THEN [status |-> "expired", canDeposit |-> FALSE]
  ELSE IF kycResult.valid THEN [status |-> "verified", canDeposit |-> TRUE]
  ELSE [status |-> "not_verified", canDeposit |-> FALSE]
\* "Determine status" of GET /kyc/status, for a result that carries a record
determineStatus(kycResult, clock) ==
  IF kycResult.record.revoked THEN [status |-> "revoked", canDeposit |-> FALSE]
  ELSE IF isCertificateExpired(kycResult.record.certificate, clock)
    THEN [status |-> "expired", canDeposit |-> FALSE]
  ELSE IF kycResult.record.certificate.fields.sanctionsStatus = "matched"
    THEN [status |-> "sanctioned", canDeposit |-> FALSE]
  ELSE IF kycResult.valid THEN [status |-> "verified", canDeposit |-> TRUE]
  ELSE [status |-> "not_verified", canDeposit |-> FALSE]

IdleStatus ==
  [pc |-> "idle", route |-> "none", identityKey |-> "alice", serialNumber |-> 0,
   kycResult |-> NoKycResult, record |-> NoKycRecord,
   \* the response: HTTP status, error, and the body's status, canDeposit, revoked
   status |-> 0, error |-> "none", kycStatus |-> "none", canDeposit |-> FALSE,
   revoked |-> FALSE,
   \* history: the clock when the response was computed, and whether a
   \* revocation of serialNumber had returned success when the request arrived
   answeredAt |-> 0, revokedBefore |-> FALSE]

\* GET /kyc/status arrives; hasValidKyc is awaited
KycStatusBegin(r, identityKey, hasIdentityKey) ==
  /\ st[r].pc = "idle"
  /\ LET frame == [IdleStatus EXCEPT !.route = "kyc/status", !.identityKey = identityKey]
     IN st' = [st EXCEPT ![r] =
          IF ~ hasIdentityKey THEN respond(frame, 400, "Identity key is required")
          ELSE [frame EXCEPT !.pc = "hasValidKyc"]]
  /\ UNCHANGED <<ledgerVars, calls, envVars, kycVars, dep, tf, wd, sw, kvVars>>

\* getKycRecord returns and hasValidKyc computes its result
KycStatusLookup(r, storeOk) ==
  /\ st[r].pc = "hasValidKyc"
  /\ st' = [st EXCEPT ![r] =
       IF ~ storeOk THEN respond(st[r], 500, "Failed to get KYC status")
       ELSE [st[r] EXCEPT !.pc = "determineStatus",
                          !.kycResult = hasValidKyc(kyc, st[r].identityKey, now)]]
  /\ UNCHANGED <<ledgerVars, calls, envVars, kycVars, dep, tf, wd, sw, kvVars>>

\* hasValidKyc has returned: 404 without a record, else the status is determined
KycStatusRespond(r) ==
  /\ st[r].pc = "determineStatus"
  /\ LET frame == [st[r] EXCEPT !.record = st[r].kycResult.record, !.answeredAt = now]
         determined == determineStatus(frame.kycResult, now)
     IN st' = [st EXCEPT ![r] =
          IF ~ frame.kycResult.record.present
            THEN [respond(frame, 404, "none") EXCEPT !.kycStatus = "not_verified"]
          ELSE [respond(frame, 200, "none") EXCEPT !.kycStatus = determined.status,
                                                    !.canDeposit = determined.canDeposit]]
  /\ UNCHANGED <<ledgerVars, calls, envVars, kycVars, dep, tf, wd, sw, kvVars>>

\* GET /trustflow/status/:serialNumber arrives; getKycRecordBySerial is awaited
CertStatusBegin(r, serialNumber) ==
  /\ st[r].pc = "idle"
  /\ st' = [st EXCEPT ![r] =
       [IdleStatus EXCEPT !.route = "trustflow/status", !.serialNumber = serialNumber,
                          !.revokedBefore = serialNumber \in revokedOk,
                          !.pc = "getKycRecordBySerial"]]
  /\ UNCHANGED <<ledgerVars, calls, envVars, kycVars, dep, tf, wd, sw, kvVars>>

\* getKycRecordBySerial returns; without an outpoint the answer is revoked: false
CertStatusLookup(r, storeOk) ==
  /\ st[r].pc = "getKycRecordBySerial"
  /\ LET record == getKycRecordBySerial(kyc, st[r].serialNumber)
         frame == [st[r] EXCEPT !.record = record, !.answeredAt = now]
     IN st' = [st EXCEPT ![r] =
          IF ~ storeOk THEN respond(st[r], 500, "Failed to check certificate status")
          ELSE IF ~ record.present THEN respond(frame, 404, "Certificate not found")
          ELSE IF record.certificate.revocationOutpoint # NullOutpoint
            THEN [frame EXCEPT !.pc = "checkRevocationStatus"]
          ELSE respond(frame, 200, "none")]
  /\ UNCHANGED <<ledgerVars, calls, envVars, kycVars, dep, tf, wd, sw, kvVars>>

\* checkRevocationStatus(record.certificate.revocationOutpoint) returns
CertStatusRevocation(r) ==
  /\ st[r].pc = "checkRevocationStatus"
  /\ LET outpoint == st[r].record.certificate.revocationOutpoint
     IN \E response \in (IF outpointWellFormed(outpoint) THEN LookupResponses(outpoint) ELSE {NoLookup}) :
          st' = [st EXCEPT ![r] =
            [respond(st[r], 200, "none")
               EXCEPT !.revoked = checkRevocationStatus(outpoint, response).revoked,
                      !.answeredAt = now]]
  /\ UNCHANGED <<ledgerVars, calls, envVars, kycVars, dep, tf, wd, sw, kvVars>>

\* the response has been sent: the request's frame is gone
StatusClose(r) ==
  /\ st[r].pc = "done"
  /\ st' = [st EXCEPT ![r] = IdleStatus]
  /\ UNCHANGED <<ledgerVars, calls, envVars, kycVars, dep, tf, wd, sw, kvVars>>

\* ------------------------------------------------------------------------
\* JavaScript numbers (IEEE 754 binary64)
\* ------------------------------------------------------------------------
\* A positive number is bits * 2^exp, where bits are the 53 binary digits of
\* the significand, most significant first and starting with 1. Every
\* operation rounds its exact result to the nearest such number, ties to the
\* even significand. The amounts of a swap are far from the subnormal and the
\* overflow range.
MantissaBits == 53
ZeroNumber == [kind |-> "zero", bits |-> <<>>, exp |-> 0]

\* the binary digits of a natural number, most significant first
RECURSIVE IntBits(_)
IntBits(n) == IF n = 0 THEN <<>> ELSE IntBits(n \div 2) \o <<n % 2>>

\* the natural number a digit sequence writes
RECURSIVE BitsInt(_)
BitsInt(bits) ==
  IF bits = <<>> THEN 0
  ELSE IF Len(bits) = 1 THEN bits[1]
  ELSE LET half == Len(bits) \div 2
       IN BitsInt(SubSeq(bits, 1, half)) * 2^(Len(bits) - half)
            + BitsInt(SubSeq(bits, half + 1, Len(bits)))

Zeros(k) == [j \in 1..k |-> 0]

StripLeadingZeros(bits) ==
  LET ones == {k \in 1..Len(bits) : bits[k] = 1}
  IN IF ones = {} THEN <<>>
     ELSE SubSeq(bits, CHOOSE k \in ones : \A j \in ones : k <= j, Len(bits))

\* the digit sequence plus one: the last 0 becomes 1 and the 1s after it 0
Increment(bits) ==
  LET zeros == {k \in 1..Len(bits) : bits[k] = 0}
  IN IF zeros = {} THEN <<1>> \o Zeros(Len(bits))
     ELSE LET last == CHOOSE k \in zeros : \A j \in zeros : j <= k
          IN SubSeq(bits, 1, last - 1) \o <<1>> \o Zeros(Len(bits) - last)

\* the number nearest to bits * 2^exp (plus a nonzero fraction of the last
\* digit when sticky), ties to even; bits start with 1
RoundToNearestEven(bits, sticky, exp) ==
  LET len == Len(bits)
  IN IF len <= MantissaBits
       THEN [kind |-> "positive", bits |-> bits \o Zeros(MantissaBits - len),
             exp |-> exp - (MantissaBits - len)]
     ELSE LET kept == SubSeq(bits, 1, MantissaBits)
              guard == bits[MantissaBits + 1]
              rest == sticky \/ \E k \in (MantissaBits + 2)..len : bits[k] = 1
              up == guard = 1 /\ (rest \/ kept[MantissaBits] = 1)
              rounded == IF up THEN Increment(kept) ELSE kept
          IN IF Len(rounded) > MantissaBits
               THEN [kind |-> "positive", bits |-> SubSeq(rounded, 1, MantissaBits),
                     exp |-> exp + (len - MantissaBits) + 1]
             ELSE [kind |-> "positive", bits |-> rounded, exp |-> exp + (len - MantissaBits)]

\* the number an integer literal or an integer result stands for
fromInteger(n) == IF n = 0 THEN ZeroNumber ELSE RoundToNearestEven(IntBits(n), FALSE, 0)

Reverse(seq) == [k \in 1..Len(seq) |-> seq[Len(seq) + 1 - k]]

\* bits * m + carry, from the last digit up: the digits that take the place of
\* bits, least significant first, and the carry out of the first digit (the
\* sequence is worked on in halves)
RECURSIVE MulBits(_, _, _)
MulBits(bits, m, carry) ==
  IF bits = <<>> THEN [digits |-> <<>>, carry |-> carry]
  ELSE IF Len(bits) = 1
    THEN LET t == bits[1] * m + carry IN [digits |-> <<t % 2>>, carry |-> t \div 2]
  ELSE LET half == Len(bits) \div 2
           low == MulBits(SubSeq(bits, half + 1, Len(bits)), m, carry)
           high == MulBits(SubSeq(bits, 1, half), m, low.carry)
       IN [digits |-> low.digits \o high.digits, carry |-> high.carry]

\* x * m for a positive x and an integer constant m
times(x, m) ==
  LET product == MulBits(x.bits, m, 0)
  IN RoundToNearestEven(IntBits(product.carry) \o Reverse(product.digits), FALSE, x.exp)

\* long division of (rem, bits) by d, from the first digit down: quotient
\* digits and remainder
RECURSIVE DivBits(_, _, _)
DivBits(bits, d, rem) ==
  IF bits = <<>> THEN [q |-> <<>>, rem |-> rem]
  ELSE IF Len(bits) = 1
    THEN LET cur == 2 * rem + bits[1]
         IN IF cur >= d THEN [q |-> <<1>>, rem |-> cur - d] ELSE [q |-> <<0>>, rem |-> cur]
  ELSE LET half == Len(bits) \div 2
           high == DivBits(SubSeq(bits, 1, half), d, rem)
           low == DivBits(SubSeq(bits, half + 1, Len(bits)), d, high.rem)
       IN [q |-> high.q \o low.q, rem |-> low.rem]

\* x / d for a positive x and an integer constant d
over(x, d) ==
  LET extra == Len(IntBits(d)) + 1
      division == DivBits(x.bits \o Zeros(extra), d, 0)
  IN RoundToNearestEven(StripLeadingZeros(division.q), division.rem # 0, x.exp - extra)

\* Infinity where the model writes a whole number: above every amount
InfiniteUnits == 2147483647
\* Math.floor of a non-negative number, as an integer
floor(x) ==
  IF x.kind = "zero" THEN 0
  ELSE IF x.kind = "Infinity" THEN InfiniteUnits
  ELSE LET whole == MantissaBits + x.exp
       IN IF whole <= 0 THEN 0
          ELSE IF whole >= MantissaBits THEN BitsInt(x.bits \o Zeros(whole - MantissaBits))
          ELSE BitsInt(SubSeq(x.bits, 1, whole))

\* ------------------------------------------------------------------------
\* POST /swap
\* ------------------------------------------------------------------------
Directions == {"bsv-to-usd", "usd-to-bsv", "sideways"}

\* usdAmount = (satoshis / SATOSHIS_PER_BSV) * BSV_USD_RATE
usdAmountOf(satoshis) ==
  IF satoshis = 0 THEN ZeroNumber
  ELSE IF satoshis = InfiniteUnits THEN [ZeroNumber EXCEPT !.kind = "Infinity"]
  ELSE times(over(fromInteger(satoshis), SATOSHIS_PER_BSV), BSV_USD_RATE)
\* satoshis = Math.floor((usdAmount / BSV_USD_RATE) * SATOSHIS_PER_BSV)
satoshisOf(usdAmount) ==
  IF usdAmount.kind = "zero" THEN 0
  ELSE IF usdAmount.kind = "Infinity" THEN InfiniteUnits
  ELSE floor(times(over(usdAmount, BSV_USD_RATE), SATOSHIS_PER_BSV))

IdleSwap ==
  [pc |-> "idle", direction |-> "none", amount |-> ZeroNumber, satoshis |-> 0,
   usdAmount |-> ZeroNumber, status |-> 0, error |-> "none"]

\* typeof amount !== 'number' || Number.isNaN(amount) || amount <= 0
invalidSwapAmount(amount) ==
  amount.kind = "string" \/ amount.kind = "NaN" \/ amount.kind \in {"zero", "negative"}

\* the request arrives: authentication, direction and amount are checked, the
\* two amounts are computed and the store's swap is awaited
SwapBegin(r, authenticated, direction, amount) ==
  /\ sw[r].pc = "idle"
  /\ LET frame == [IdleSwap EXCEPT !.direction = direction, !.amount = amount]
     IN sw' = [sw EXCEPT ![r] =
          IF ~ authenticated THEN respond(frame, 401, "Authentication required")
          ELSE IF direction # "bsv-to-usd" /\ direction # "usd-to-bsv"
            THEN respond(frame, 400, "Invalid direction")
          ELSE IF invalidSwapAmount(amount) THEN respond(frame, 400, "Invalid amount")
          ELSE IF direction = "bsv-to-usd"
            THEN [frame EXCEPT !.pc = "swapBsvToUsd", !.satoshis = floor(amount),
                               !.usdAmount = usdAmountOf(floor(amount))]
          ELSE [frame EXCEPT !.pc = "swapUsdToBsv", !.usdAmount = amount,
                             !.satoshis = satoshisOf(amount)]]
  /\ UNCHANGED <<ledgerVars, calls, envVars, kycVars, dep, tf, wd, kvVars, st>>

\* _balanceStorage.swapBsvToUsd / swapUsdToBsv returns or throws; the store's
\* two-currency document is not part of the sources at hand
SwapStore(r, storeOk) ==
  /\ sw[r].pc \in {"swapBsvToUsd", "swapUsdToBsv"}
  /\ sw' = [sw EXCEPT ![r] =
       IF storeOk THEN respond(sw[r], 200, "none")
       ELSE respond(sw[r], 500, "Failed to process swap")]
  /\ UNCHANGED <<ledgerVars, calls, envVars, kycVars, dep, tf, wd, kvVars, st>>

\* the response has been sent: the request's frame is gone
SwapClose(r) ==
  /\ sw[r].pc = "done"
  /\ sw' = [sw EXCEPT ![r] = IdleSwap]
  /\ UNCHANGED <<ledgerVars, calls, envVars, kycVars, dep, tf, wd, kvVars, st>>

\* ------------------------------------------------------------------------
\* Specifications
\* ------------------------------------------------------------------------
\* nothing in flight, nothing issued, nothing spent
QuietExchange ==
  /\ calls = [c \in Callers |-> IdleCall]
  /\ now = 0
  /\ spent = {}
  /\ kyc = [i \in Identities |-> NoKycRecord]
  /\ issued = {}
  /\ revokedOk = {}
  /\ nextSerial = 0
  /\ dep = [r \in DepositSlots |-> IdleDeposit]
  /\ tf = [r \in TrustflowSlots |-> IdleTrustflow]
  /\ wd = [r \in WithdrawSlots |-> IdleWithdraw]
  /\ sw = [r \in SwapSlots |-> IdleSwap]
  /\ kvStore = [i \in Identities |-> NoValue]
  /\ kvCalls = [c \in Callers |-> IdleKvCall]
  /\ st = [r \in StatusSlots |-> IdleStatus]

\* the ledger after earlier deposits: a document exists once something was credited
LedgerInit ==
  /\ initial \in [Identities -> 0..MaxInitial]
  /\ \A i \in Identities \ LedgerIdentities : initial[i] = 0
  /\ balances = [i \in Identities |-> IF initial[i] = 0 THEN NoDocument ELSE BalanceDocument(initial[i])]
  /\ credited = [i \in Identities |-> 0]
  /\ debited = [i \in Identities |-> 0]
  /\ QuietExchange

LedgerNext ==
  \E c \in Callers :
    \/ \E i \in LedgerIdentities, a \in Amounts : CallAddBalance(c, i, a)
    \/ \E i \in LedgerIdentities, a \in Amounts : CallSubtractBalance(c, i, a)
    \/ AddFindOneAndUpdate(c)
    \/ SubFindOne(c)
    \/ SubFindOneAndUpdate(c)

\* the storage class under concurrent direct callers
SpecLedger == LedgerInit /\ [][LedgerNext]_vars

\* a fresh exchange: empty ledger
ExchangeInit ==
  /\ initial = [i \in Identities |-> 0]
  /\ balances = [i \in Identities |-> NoDocument]
  /\ credited = [i \in Identities |-> 0]
  /\ debited = [i \in Identities |-> 0]
  /\ QuietExchange

\* the steps of a deposit after its arrival
DepositSteps(r, payments) ==
  \/ \E walletOk \in BOOLEAN : DepositIdentityKey(r, walletOk)
  \/ DepositRevocation(r)
  \/ DepositMarkRevoked(r)
  \/ \E hasTransaction \in BOOLEAN, hasInstructions \in BOOLEAN :
       DepositSanctions(r, hasTransaction, hasInstructions)
  \/ \E walletOk \in BOOLEAN, p \in Prefixes, x \in payments.suffixes, h \in payments.hashes :
       DepositDerive(r, walletOk, p, x, h)
  \/ \E result \in {"accepted", "rejected", "throws"} : DepositInternalize(r, result)
  \/ \E storeOk \in BOOLEAN, satoshis \in payments.amounts, amount \in payments.declared :
       DepositCredit(r, storeOk, satoshis, amount)
  \/ DepositClose(r)

\* the payments clients attach: any suffix, any of the hashes, any amount, any
\* declared amount
PresentedPayments ==
  [suffixes |-> Suffixes, hashes |-> PublicKeyHashes, amounts |-> Amounts, declared |-> Amounts]

GateNext ==
  \/ \E d \in TickSizes : Tick(d)
  \/ \E o \in ChainOutpoints : SpendOutpoint(o)
  \/ \E r \in DepositSlots, i \in Identities, c \in PresentedCertificates : DepositBegin(r, i, c)
  \/ \E r \in DepositSlots : DepositSteps(r, PresentedPayments)

\* POST /deposit with certificates as clients can assemble them
SpecGate == ExchangeInit /\ [][GateNext]_vars

WithdrawNext(r) ==
  \/ \E i \in LedgerIdentities : WithdrawBegin(r, i)
  \/ \E walletOk \in BOOLEAN, isNumber \in BOOLEAN, a \in 0..MaxAmount :
       WithdrawIdentityKey(r, walletOk, isNumber, a)
  \/ \E storeOk \in BOOLEAN : WithdrawGetBalance(r, storeOk)
  \/ \E walletOk \in BOOLEAN : WithdrawDerive(r, walletOk)
  \/ \E walletOk \in BOOLEAN : WithdrawCreateAction(r, walletOk)
  \/ WithdrawSubFindOne(r)
  \/ WithdrawSubFindOneAndUpdate(r)
  \/ WithdrawClose(r)

WithdrawRaceNext == \E r \in WithdrawSlots : WithdrawNext(r)

\* POST /withdraw requests racing on a funded ledger
SpecWithdraw == LedgerInit /\ [][WithdrawRaceNext]_vars

\* certificates a client can present once the exchange has issued some: the
\* issued ones, and ones it assembles itself naming the exchange as certifier
AssembledCertificates ==
  { [present |-> TRUE, subject |-> s, certifier |-> ServerIdentityKey,
     fields |-> [officialName |-> "Alice Smith", serialNumber |-> 0,
                 sanctionsStatus |-> "clear", issuedAt |-> toISOString(0),
                 expiresAt |-> toISOString(2 * CERTIFICATE_VALIDITY_MS)],
     revocationOutpoint |-> NullOutpoint] : s \in Identities }

\* the customer whose requests the model follows through issuance and deposit
Applicants == {"alice"}

\* the payments the applicant attaches: one derivation, paid to the applicant's
\* derived key or to somebody else's, of one amount
ApplicantPayments ==
  [suffixes |-> {"s1"},
   hashes |-> {toHash(getPublicKey(keyID("p1", "s1"), i, TRUE)) : i \in Identities},
   amounts |-> {MaxAmount}, declared |-> {1}]
\* the names applicants declare
ApplicantNames == Names
\* the clock jumps past the validity window of the certificates of time 0
LateTicks == {CERTIFICATE_VALIDITY_MS + MaxLateness}

\* every certificate POST /verify can return within the bounds
IssuableCertificates ==
  UNION { { [createKycCertificate(s, ServerIdentityKey, n, status, t, k)
               EXCEPT !.revocationOutpoint = o] :
            s \in Identities, n \in ApplicantNames, status \in {"clear", "matched"},
            t \in ClockInstants, o \in {NullOutpoint, formatOutpoint(k, 0)} } :
          k \in 1..MaxCerts }

\* a deposit arrives with a certificate the client holds: one the exchange
\* returned, or one the client assembled
DepositPresenting(r, senderIdentityKey, certificate) ==
  /\ certificate \in issued \cup AssembledCertificates
  /\ DepositBegin(r, senderIdentityKey, certificate)

AnchorOutpoints == {c.revocationOutpoint : c \in issued} \ {NullOutpoint}

\* the subject or the certifier spends the anchor of an issued certificate
SpendAnchor(outpoint) ==
  /\ outpoint \in AnchorOutpoints
  /\ SpendOutpoint(outpoint)

TrustflowNext(r) ==
  \/ \E i \in Applicants, hasAuthorization \in BOOLEAN, n \in SignatureLengths :
       VerifyBegin(r, i, hasAuthorization, n)
  \/ \E walletOk \in BOOLEAN, s \in Identities, v \in Certifiers, n \in ApplicantNames,
        offset \in TimestampOffsets : VerifyIdentityKey(r, walletOk, s, v, n, offset)
  \/ \E response \in YenteResponses : VerifySanctions(r, response)
  \/ \E walletOk \in BOOLEAN : VerifyAnchor(r, walletOk)
  \/ \E storeOk \in BOOLEAN : VerifySave(r, storeOk)
  \/ \E i \in Requesters, s \in 1..MaxCerts : RevokeBegin(r, i, s)
  \/ \E storeOk \in BOOLEAN : RevokeLookup(r, storeOk)
  \/ \E walletOk \in BOOLEAN : RevokeAuthorize(r, walletOk)
  \/ \E storeOk \in BOOLEAN : RevokeMark(r, storeOk)
  \/ TrustflowClose(r)

TrustNext ==
  \/ \E d \in LateTicks : Tick(d)
  \/ \E k \in 1..MaxCerts : SpendAnchor(formatOutpoint(k, 0))
  \/ \E r \in TrustflowSlots : TrustflowNext(r)
  \/ \E r \in DepositSlots, i \in Applicants, c \in IssuableCertificates \cup AssembledCertificates :
       DepositPresenting(r, i, c)
  \/ \E r \in DepositSlots : DepositSteps(r, ApplicantPayments)

\* issuance, revocation and deposits against the same exchange
SpecTrust == ExchangeInit /\ [][TrustNext]_vars

IssueNext ==
  \/ \E d \in LateTicks : Tick(d)
  \/ \E r \in TrustflowSlots : TrustflowNext(r)

\* the /trustflow routes alone: certificates are issued, re-issued and revoked
SpecIssue == ExchangeInit /\ [][IssueNext]_vars

KycStatusNext(r) ==
  \/ \E i \in Applicants, hasIdentityKey \in BOOLEAN : KycStatusBegin(r, i, hasIdentityKey)
  \/ \E storeOk \in BOOLEAN : KycStatusLookup(r, storeOk)
  \/ KycStatusRespond(r)
  \/ StatusClose(r)

StatusNext(r) ==
  \/ KycStatusNext(r)
  \/ \E s \in 1..MaxCerts : CertStatusBegin(r, s)
  \/ \E storeOk \in BOOLEAN : CertStatusLookup(r, storeOk)
  \/ CertStatusRevocation(r)

\* a client asks for a status once its /trustflow request has been answered,
\* and sends its next /trustflow request once the status has been answered
TrustflowAfterStatus(r) == (\A q \in StatusSlots : st[q].pc = "idle") /\ TrustflowNext(r)
StatusAfterTrustflow(r) == TrustflowClosed /\ StatusNext(r)
KycStatusAfterTrustflow(r) == TrustflowClosed /\ KycStatusNext(r)

QueryNext ==
  \/ \E d \in LateTicks : Tick(d)
  \/ \E k \in 1..MaxCerts : SpendAnchor(formatOutpoint(k, 0))
  \/ \E r \in TrustflowSlots : TrustflowAfterStatus(r)
  \/ \E r \in StatusSlots : StatusAfterTrustflow(r)

\* issuance and revocation, and the status routes queried in between
SpecQuery == ExchangeInit /\ [][QueryNext]_vars

KycQueryNext ==
  \/ \E d \in LateTicks : Tick(d)
  \/ \E r \in TrustflowSlots : TrustflowAfterStatus(r)
  \/ \E r \in StatusSlots : KycStatusAfterTrustflow(r)

\* issuance and revocation, and GET /kyc/status queried in between
SpecKycStatus == ExchangeInit /\ [][KycQueryNext]_vars

\* POST /withdraw with amounts that need not be whole. The body's amount is a
\* JSON number; in this specification every number of the ledger counts
\* halves of a base unit, so that 1 is the amount 0.5 and a whole amount is even.
HalvesPerUnit == 2
isInteger(n) == n % HalvesPerUnit = 0

\* the ledger after earlier deposits, which credit whole amounts
FractionInit ==
  /\ LedgerInit
  /\ \A i \in Identities : isInteger(initial[i])

FractionNext == \E r \in WithdrawSlots : WithdrawNext(r)

SpecFraction == FractionInit /\ [][FractionNext]_vars

\* the answers of a sanctions service that is down: the fetch throws or the
\* status is not OK
UnavailableResponses == {response \in YenteResponses : response.throws \/ response.status # 200}

\* POST /trustflow/verify and POST /deposit while the sanctions service is
\* down: customers obtain certificates and deposit with them
OutageNext ==
  \/ \E k \in 1..MaxCerts : SpendAnchor(formatOutpoint(k, 0))
  \/ \E r \in TrustflowSlots :
       \/ \E i \in Applicants, hasAuthorization \in BOOLEAN, n \in SignatureLengths :
            VerifyBegin(r, i, hasAuthorization, n)
       \/ \E walletOk \in BOOLEAN, s \in Identities, v \in Certifiers, n \in ApplicantNames,
             offset \in TimestampOffsets : VerifyIdentityKey(r, walletOk, s, v, n, offset)
       \/ \E response \in UnavailableResponses : VerifySanctions(r, response)
       \/ \E walletOk \in BOOLEAN : VerifyAnchor(r, walletOk)
       \/ \E storeOk \in BOOLEAN : VerifySave(r, storeOk)
       \/ TrustflowClose(r)
  \/ \E r \in DepositSlots, i \in Applicants, c \in IssuableCertificates : DepositPresenting(r, i, c)
  \/ \E r \in DepositSlots : DepositSteps(r, ApplicantPayments)

SpecOutage == ExchangeInit /\ [][OutageNext]_vars

\* POST /swap alone. A client sends whole numbers of base units or of dollars,
\* or the dollar amount an earlier conversion of base units came to.
SwapUnits == (1..MaxSwap) \cup {100000}
SwapNumbers ==
  {ZeroNumber} \cup {fromInteger(n) : n \in SwapUnits} \cup {usdAmountOf(n) : n \in SwapUnits}
    \cup {[ZeroNumber EXCEPT !.kind = k] : k \in {"string", "NaN", "negative", "Infinity"}}

SwapNext ==
  \E r \in SwapSlots :
    \/ \E authenticated \in BOOLEAN, direction \in Directions, amount \in SwapNumbers :
         SwapBegin(r, authenticated, direction, amount)
    \/ \E storeOk \in BOOLEAN : SwapStore(r, storeOk)
    \/ SwapClose(r)

SpecSwap == ExchangeInit /\ [][SwapNext]_vars

\* a deposit arrives while the sum of the identity's credits is within the
\* model's bound
DepositWithinBound(r, senderIdentityKey, certificate) ==
  /\ credited[senderIdentityKey] + MaxAmount <= MaxBalance
  /\ DepositBegin(r, senderIdentityKey, certificate)

\* POST /deposit and POST /withdraw racing on one ledger, with certificates as
\* clients can assemble them
SettleNext ==
  \/ \E o \in ChainOutpoints : SpendOutpoint(o)
  \/ \E r \in DepositSlots, i \in LedgerIdentities, c \in PresentedCertificates :
       DepositWithinBound(r, i, c)
  \/ \E r \in DepositSlots : DepositSteps(r, ApplicantPayments)
  \/ \E r \in WithdrawSlots : WithdrawNext(r)

SpecSettle == ExchangeInit /\ [][SettleNext]_vars

\* concurrent callers of the LocalKVStore BalanceStorage
KvNext ==
  \E c \in Callers :
    \/ \E op \in {"addBalance", "subtractBalance"}, i \in LedgerIdentities, a \in Amounts :
         KvCall(c, op, i, a)
    \/ \E storeOk \in BOOLEAN : KvGetBalance(c, storeOk)
    \/ \E storeOk \in BOOLEAN : KvSetBalance(c, storeOk)

SpecKv == ExchangeInit /\ [][KvNext]_vars


\* ------------------------------------------------------------------------
\* C1  No-overdraft (MongoDB BalanceStorage): under every interleaving of the
\* storage steps of concurrent addBalance and subtractBalance calls, no stored
\* balance is negative and the amounts of the subtractBalance calls that
\* returned never exceed the initial balance plus the credits applied so far.
\* ------------------------------------------------------------------------
NoOverdraft ==
  \A i \in Identities :
    /\ balances[i].balance >= 0
    /\ debited[i] <= initial[i] + credited[i]

\* two debits raced on one identity: one returned, the other lost the guarded decrement
NoOverdraftWitness ==
  \E c1, c2 \in Callers :
    /\ calls[c1].op = "subtractBalance" /\ calls[c1].pc = "returned"
    /\ calls[c2].op = "subtractBalance" /\ calls[c2].pc = "thrown"
    /\ calls[c2].identityKey = calls[c1].identityKey
    /\ calls[c2].error = "Insufficient balance: concurrent modification detected"

\* ------------------------------------------------------------------------
\* Reading a request's log
\* ------------------------------------------------------------------------
InLog(frame, event) == \E k \in 1..Len(frame.log) : frame.log[k] = event
LastLogged(frame) == IF frame.log = <<>> THEN "nothing" ELSE frame.log[Len(frame.log)]
\* the body's key-hash and derivation fields have been read
HashCompared(frame) ==
  /\ InLog(frame, "wallet.getPublicKey(BRC29)")
  /\ frame.pc # "getPublicKey"
\* the hash of the key derived for (derivationPrefix, derivationSuffix, requester)
ExpectedHash(frame) ==
  toHash(getPublicKey(keyID(frame.customInstructions.derivationPrefix,
                            frame.customInstructions.derivationSuffix),
                      frame.identityKey, TRUE))

\* ------------------------------------------------------------------------
\* C3  Deposit key-hash mismatch never credits: a deposit whose first output's
\* public-key-hash differs from the hash of the key derived for (prefix, suffix,
\* requester) is rejected, wallet.internalizeAction is never called for it and
\* it credits nothing, in every request of every run (retries included).
\* ------------------------------------------------------------------------
MismatchNeverCredits ==
  \A r \in DepositSlots :
    LET frame == dep[r]
    IN (HashCompared(frame) /\ frame.transaction.pkh # ExpectedHash(frame)) =>
         /\ frame.pc = "done"
         /\ frame.status \in {400, 500}
         /\ ~ InLog(frame, "wallet.internalizeAction")
         /\ ~ InLog(frame, "addBalance")
         /\ ~ frame.internalized
         /\ frame.creditedAmount = 0

\* a mismatching deposit was rejected while the requester holds a balance from
\* an earlier deposit
MismatchWitness ==
  \E r \in DepositSlots :
    /\ dep[r].pc = "done"
    /\ dep[r].error = "PublicKey Hash Mismatch"
    /\ dep[r].transaction.pkh # ExpectedHash(dep[r])
    /\ getBalance(balances, dep[r].identityKey) > 0

\* ------------------------------------------------------------------------
\* C4  Credit only after accepted internalization: addBalance is called only
\* after wallet.internalizeAction returned accepted = true for the request; a
\* request whose internalization is not accepted fails and credits nothing.
\* ------------------------------------------------------------------------
CreditOnlyAfterAccepted ==
  \A r \in DepositSlots :
    LET frame == dep[r]
    IN /\ (InLog(frame, "addBalance") \/ frame.creditedAmount > 0) =>
            /\ frame.accepted
            /\ \E j, k \in 1..Len(frame.log) :
                 j < k /\ frame.log[j] = "wallet.internalizeAction" /\ frame.log[k] = "addBalance"
       /\ (InLog(frame, "wallet.internalizeAction") /\ frame.pc # "internalizeAction"
             /\ ~ frame.accepted) =>
            /\ frame.pc = "done"
            /\ frame.status # 200
            /\ frame.creditedAmount = 0

\* a deposit whose internalization was accepted has been credited
CreditWitness ==
  \E r \in DepositSlots :
    /\ dep[r].pc = "done" /\ dep[r].status = 200
    /\ dep[r].accepted /\ dep[r].creditedAmount > 0

\* ------------------------------------------------------------------------
\* C7  Deposit eligibility is checked in the order certificate present,
\* subject = requester, certifier = exchange identity key, not expired, (with a
\* revocationOutpoint) not revoked on-chain, sanctions re-screen; the first
\* failing check gives the rejection reason, nothing is checked or looked up
\* after it, and a request failing a check derives no key, internalizes nothing
\* and credits nothing.
\* ------------------------------------------------------------------------
Rank(event) ==
  CASE event = "certificate?" -> 1
    [] event = "subject?" -> 2
    [] event = "wallet.getPublicKey(identityKey)" -> 3
    [] event = "certifier?" -> 4
    [] event = "expired?" -> 5
    [] event = "checkRevocationStatus" -> 6
    [] event = "kycStorage.revokeKycRecord" -> 7
    [] event = "checkSanctions" -> 8
    [] event = "wallet.getPublicKey(BRC29)" -> 9
    [] event = "wallet.internalizeAction" -> 10
    [] event = "addBalance" -> 11
    [] OTHER -> 0

GateRejections ==
  {"Identity Certificate required", "Certificate subject mismatch", "Invalid certificate issuer",
   "Certificate expired", "Certificate has been revoked",
   "Deposit blocked: User appears on sanctions list"}

EligibilityOrder ==
  \A r \in DepositSlots :
    LET frame == dep[r]
        cert == frame.certificate
    IN frame.pc # "idle" =>
         /\ \A j, k \in 1..Len(frame.log) : j < k => Rank(frame.log[j]) < Rank(frame.log[k])
         /\ \A k \in 1..Len(frame.log) : Rank(frame.log[k]) > 0
         /\ frame.log[1] = "certificate?"
         /\ ~ cert.present =>
              frame.pc = "done" /\ frame.error = "Identity Certificate required"
              /\ frame.log = <<"certificate?">>
         /\ (cert.present /\ cert.subject # frame.identityKey) =>
              frame.pc = "done" /\ frame.error = "Certificate subject mismatch"
              /\ frame.log = <<"certificate?", "subject?">>
         /\ frame.error = "Invalid certificate issuer" =>
              cert.present /\ cert.subject = frame.identityKey
              /\ cert.certifier # ServerIdentityKey /\ LastLogged(frame) = "certifier?"
         /\ InLog(frame, "expired?") => cert.certifier = ServerIdentityKey
         /\ frame.error = "Certificate expired" =>
              LastLogged(frame) = "expired?"
              /\ isCertificateExpired(cert, frame.expiryCheckedAt)
         /\ InLog(frame, "checkRevocationStatus") =>
              cert.revocationOutpoint # NullOutpoint
              /\ ~ isCertificateExpired(cert, frame.expiryCheckedAt)
         /\ frame.error = "Certificate has been revoked" =>
              LastLogged(frame) = "kycStorage.revokeKycRecord" /\ frame.revoked
         /\ InLog(frame, "checkSanctions") =>
              /\ ~ isCertificateExpired(cert, frame.expiryCheckedAt)
              /\ ~ frame.revoked
              /\ InLog(frame, "checkRevocationStatus") <=> cert.revocationOutpoint # NullOutpoint
         /\ frame.error = "Deposit blocked: User appears on sanctions list" =>
              LastLogged(frame) = "checkSanctions"
         /\ InLog(frame, "wallet.getPublicKey(BRC29)") =>
              ~ mockCheckSanctions(cert.fields.officialName).sanctioned
         /\ frame.error \in GateRejections =>
              /\ frame.pc = "done" /\ frame.status = 403
              /\ ~ InLog(frame, "wallet.getPublicKey(BRC29)")
              /\ ~ InLog(frame, "wallet.internalizeAction")
              /\ ~ InLog(frame, "addBalance")
              /\ frame.creditedAmount = 0 /\ ~ frame.internalized

\* a certificate failing two checks at once (wrong certifier and expired) was
\* rejected for the earlier one
EligibilityWitness ==
  \E r \in DepositSlots :
    /\ dep[r].pc = "done"
    /\ dep[r].error = "Invalid certificate issuer"
    /\ isCertificateExpired(dep[r].certificate, now)
    /\ mockCheckSanctions(dep[r].certificate.fields.officialName).sanctioned

\* ------------------------------------------------------------------------
\* C8  Certificate expiry: isCertificateExpired is true exactly when
\* now > expiresAt (not at now = expiresAt), and a deposit whose certificate has
\* its expiresAt in the past when checked is rejected as expired and credits
\* nothing, although subject, certifier, revocation and sanctions would pass.
\* ------------------------------------------------------------------------
ExpiryRejects ==
  /\ \A c \in PresentedCertificates :
       c.present =>
         (isCertificateExpired(c, now) <=>
            (c.fields.expiresAt.wellFormed /\ now > c.fields.expiresAt.ms))
  /\ \A r \in DepositSlots :
       LET frame == dep[r]
           expiresAt == frame.certificate.fields.expiresAt
       IN InLog(frame, "expired?") =>
            ((expiresAt.wellFormed /\ frame.expiryCheckedAt > expiresAt.ms) <=>
               (/\ frame.pc = "done"
                /\ frame.status = 403
                /\ frame.error = "Certificate expired"
                /\ frame.creditedAmount = 0
                /\ ~ InLog(frame, "addBalance")))

\* a certificate that would pass every other check was rejected one
\* millisecond after its expiresAt
ExpiryWitness ==
  \E r \in DepositSlots :
    LET frame == dep[r]
        cert == frame.certificate
    IN /\ frame.pc = "done" /\ frame.error = "Certificate expired"
       /\ frame.expiryCheckedAt = cert.fields.expiresAt.ms + 1
       /\ cert.subject = frame.identityKey /\ cert.certifier = ServerIdentityKey
       /\ cert.revocationOutpoint = NullOutpoint
       /\ ~ mockCheckSanctions(cert.fields.officialName).sanctioned

\* ------------------------------------------------------------------------
\* C9  Revocation fail-open: checkRevocationStatus answers revoked = false when
\* the lookup throws, answers a non-OK status or 404, and revoked = true only
\* when the lookup succeeds and names a spending txid; a deposit whose lookup
\* errored goes on to the sanctions re-screen and is not rejected as revoked.
\* ------------------------------------------------------------------------
RevocationFailOpen ==
  \A r \in DepositSlots :
    LET frame == dep[r]
        answer == frame.lookup
        errored == answer.throws \/ answer.status < 200 \/ answer.status > 299
    IN /\ frame.revoked <=>
            (answer.made /\ ~ answer.throws /\ answer.status = 200 /\ answer.spendingTxid # 0)
       /\ (answer.made /\ errored) =>
            /\ InLog(frame, "checkSanctions")
            /\ ~ InLog(frame, "kycStorage.revokeKycRecord")
            /\ frame.error # "Certificate has been revoked"
       /\ frame.error = "Certificate has been revoked" => frame.revoked

\* a deposit was credited although the revocation lookup of its certificate threw
RevocationFailOpenWitness ==
  \E r \in DepositSlots :
    /\ dep[r].lookup.made /\ dep[r].lookup.throws
    /\ dep[r].pc = "done" /\ dep[r].status = 200 /\ dep[r].creditedAmount > 0

\* ------------------------------------------------------------------------
\* C2  Debit before construction: POST /withdraw performs the conditional debit,
\* and it has succeeded, before any payment key is derived or createAction is
\* called; when the debit fails neither is performed.
\* ------------------------------------------------------------------------
DebitBeforeConstruction ==
  \A r \in WithdrawSlots :
    LET frame == wd[r]
    IN /\ (InLog(frame, "wallet.getPublicKey(BRC29)") \/ InLog(frame, "wallet.createAction")) =>
            frame.debitedAmount = frame.amount
       /\ frame.constructed => frame.debitedAmount = frame.amount

\* ------------------------------------------------------------------------
\* C5  No forged certificate: a deposit passes the certificate gate only with a
\* certificate whose serialNumber, subject, officialName and expiresAt are those
\* of a certificate POST /trustflow/verify produced.
\* ------------------------------------------------------------------------
\* the deposit got past the sanctions re-screen, the last check of the gate
PassedGate(frame) ==
  /\ InLog(frame, "checkSanctions")
  /\ frame.pc # "checkSanctions"
  /\ frame.error # "Deposit blocked: User appears on sanctions list"

OnlyIssuedCertificatesPass ==
  \A r \in DepositSlots :
    PassedGate(dep[r]) =>
      \E c \in issued :
        /\ c.fields.serialNumber = dep[r].certificate.fields.serialNumber
        /\ c.subject = dep[r].certificate.subject
        /\ c.fields.officialName = dep[r].certificate.fields.officialName
        /\ c.fields.expiresAt = dep[r].certificate.fields.expiresAt

\* ------------------------------------------------------------------------
\* C6  No revoked certificate: once POST /trustflow/revoke/:serialNumber has
\* returned success for a certificate, every later deposit presenting that
\* certificate is rejected and credits nothing, with or without a
\* revocationOutpoint on the certificate.
\* ------------------------------------------------------------------------
RevokedCertificateRejected ==
  \A r \in DepositSlots :
    dep[r].revokedBefore =>
      /\ ~ PassedGate(dep[r])
      /\ dep[r].creditedAmount = 0
      /\ dep[r].pc = "done" => dep[r].status = 403

\* ------------------------------------------------------------------------
\* C10  Sanctioned name: when the sanctions source matches the name at issuance
\* the certificate carries sanctionsStatus "matched", and every later deposit
\* presenting that certificate is rejected as sanctioned and credits nothing.
\* ------------------------------------------------------------------------
SanctionedCertificateRejected ==
  /\ \A r \in TrustflowSlots :
       (tf[r].route = "verify" /\ tf[r].certificate.present) =>
         (tf[r].sanctionsResult.sanctioned <=>
            tf[r].certificate.fields.sanctionsStatus = "matched")
  /\ \A r \in DepositSlots :
       (dep[r].certificate \in issued
          /\ dep[r].certificate.fields.sanctionsStatus = "matched") =>
         /\ ~ PassedGate(dep[r])
         /\ dep[r].creditedAmount = 0
         /\ dep[r].pc = "done" => dep[r].status = 403

\* ------------------------------------------------------------------------
\* C11  Withdrawal compensation: a POST /withdraw that ends in failure (the
\* wallet's createAction failed, or any other step did) leaves the requester's
\* ledger balance at its value before the request: no step of a failing request
\* changes the balance, and the balance changes only in the step that answers a
\* request with success, by that request's amount.
\* ------------------------------------------------------------------------
WithdrawEnds(r) == wd[r].pc # "done" /\ wd'[r].pc = "done"

InsufficientFundsRejected ==
  [][\A r \in WithdrawSlots :
       (/\ wd[r].pc = "getBalance" /\ wd'[r].pc # "getBalance"
        /\ getBalance(balances, wd[r].identityKey) < wd[r].amount) =>
         /\ wd'[r].pc = "done"
         /\ wd'[r].status = 400
         /\ wd'[r].error = "Insufficient balance"
         /\ balances' = balances
         /\ wd'[r].debitedAmount = 0
         /\ ~ wd'[r].constructed
         /\ ~ InLog(wd'[r], "wallet.getPublicKey(BRC29)")
         /\ ~ InLog(wd'[r], "wallet.createAction")
         /\ ~ InLog(wd'[r], "subtractBalance")]_vars

\* a request for more than the account holds was refused, the account not empty
InsufficientFundsWitness ==
  \E r \in WithdrawSlots :
    /\ wd[r].pc = "done" /\ wd[r].error = "Insufficient balance"
    /\ wd[r].currentBalance > 0
    /\ wd[r].amount > wd[r].currentBalance
    /\ getBalance(balances, wd[r].identityKey) = wd[r].currentBalance

\* ------------------------------------------------------------------------
\* C13  A debit that loses a concurrent-modification race (the guarded
\* decrement matches no document) is reported to the /withdraw caller as the
\* insufficient-funds failure, the outcome of a plain overdraft attempt, not as
\* a generic internal error.
\* ------------------------------------------------------------------------
RaceReportedAsInsufficientFunds ==
  \A r \in WithdrawSlots :
    wd[r].details = "Insufficient balance: concurrent modification detected" =>
      /\ wd[r].status = 400
      /\ wd[r].error = "Insufficient balance"

\* ------------------------------------------------------------------------
\* C14  A deposit is never partially applied: at the end of every POST
\* /deposit, store and wallet failures included, the payment has been
\* internalized into the exchange wallet if and only if the requester's balance
\* has been credited for it.
\* ------------------------------------------------------------------------
DepositNeverPartial ==
  \A r \in DepositSlots :
    dep[r].pc = "done" => (dep[r].internalized <=> dep[r].creditedAmount > 0)

\* ------------------------------------------------------------------------
\* C15  An accepted POST /deposit raises the requester's balance by exactly the
\* satoshis of the payment's first output, whatever amount the body declares,
\* creating the balance document when there is none, and changes no other
\* identity's balance.
\* ------------------------------------------------------------------------
DepositCreditsFirstOutput ==
  [][\A r \in DepositSlots :
       (dep[r].pc # "done" /\ dep'[r].pc = "done" /\ dep'[r].status = 200) =>
         LET id == dep'[r].identityKey
             satoshis == dep'[r].transaction.satoshis
         IN /\ balances'[id] = BalanceDocument(getBalance(balances, id) + satoshis)
            /\ dep'[r].creditedAmount = satoshis
            /\ \A j \in Identities \ {id} : balances'[j] = balances[j]]_vars

\* a first deposit created the document with the output's satoshis while the
\* body declared another amount
DepositCreditWitness ==
  \E r \in DepositSlots :
    LET frame == dep[r]
    IN /\ frame.pc = "done" /\ frame.status = 200
       /\ frame.amount # frame.transaction.satoshis
       /\ credited[frame.identityKey] = frame.transaction.satoshis
       /\ balances[frame.identityKey] = BalanceDocument(frame.transaction.satoshis)

\* ------------------------------------------------------------------------
\* C16  Revocation authorization: POST /trustflow/revoke/:serialNumber sets the
\* stored record's revoked flag only when the requester is the certificate's
\* subject or the certifier (the exchange's identity key); another requester
\* gets 403 and an unknown serial gets 404, and in both cases the certificate
\* store is unchanged.
\* ------------------------------------------------------------------------
RevokeEnds(r) == tf[r].route = "revoke" /\ tf[r].pc # "done" /\ tf'[r].pc = "done"

RevocationAuthorization ==
  [][\A r \in TrustflowSlots :
       LET requester == tf[r].identityKey
           subject == tf'[r].record.certificate.subject
           mayRevoke == requester = subject \/ requester = ServerIdentityKey
       IN /\ (RevokeEnds(r) /\ tf[r].pc = "getKycRecordBySerial" /\ tf'[r].status # 500) =>
               (tf'[r].status = 404 <=> ~ getKycRecordBySerial(kyc, tf[r].serialNumber).present)
          /\ (RevokeEnds(r) /\ tf[r].pc = "revoke.getIdentityKey" /\ tf'[r].status # 500) =>
               (tf'[r].status = 403 /\ ~ mayRevoke)
          /\ (RevokeEnds(r) /\ tf'[r].status \in {403, 404, 500}) => kyc' = kyc
          /\ (RevokeEnds(r) /\ tf'[r].status = 200) =>
               /\ mayRevoke
               /\ kyc' = revokeKycRecord(kyc, tf[r].serialNumber)
          /\ (tf[r].route = "revoke" /\ tf'[r] # tf[r] /\ kyc' # kyc) =>
               (RevokeEnds(r) /\ tf'[r].status = 200)
          /\ (tf[r].pc = "revoke.getIdentityKey" /\ tf'[r].pc = "revokeKycRecord") => mayRevoke]_vars

\* somebody who is neither the subject nor the exchange was refused, and the
\* record is still there, not revoked
RevocationRefusedWitness ==
  \E r \in TrustflowSlots :
    /\ tf[r].route = "revoke" /\ tf[r].pc = "done" /\ tf[r].status = 403
    /\ tf[r].identityKey \notin {tf[r].record.certificate.subject, ServerIdentityKey}
    /\ LET stored == getKycRecordBySerial(kyc, tf[r].serialNumber)
       IN stored.present /\ ~ stored.revoked

\* ------------------------------------------------------------------------
\* C17  Historical certificates stay addressable: after any sequence of
\* issuances, every serial number ever issued is still found by
\* getKycRecordBySerial, while the record of a subject holds the certificate
\* issued to it last.
\* ------------------------------------------------------------------------
HistoricalCertificatesAddressable ==
  /\ \A c \in issued :
       LET stored == getKycRecordBySerial(kyc, c.fields.serialNumber)
       IN stored.present /\ stored.certificate = c
  /\ \A i \in Identities :
       LET mine == {c \in issued : c.subject = i}
       IN mine # {} =>
            /\ kyc[i].present
            /\ kyc[i].certificate \in mine
            /\ \A c \in mine : c.fields.serialNumber <= kyc[i].certificate.fields.serialNumber

\* ------------------------------------------------------------------------
\* C18: a failing createRevocationAnchor does not fail POST /trustflow/verify:
\* the request goes on to saveKycRecord, and when the store answers the
\* certificate is stored and returned with 200; it carries revocationOutpoint
\* null and no anchorTx when the anchor call threw, and "<anchor txid>:0" when
\* the anchor was created, the same in the response and in the stored record.
\* ------------------------------------------------------------------------
AnchorStep(r) == tf[r].pc = "createRevocationAnchor" /\ tf'[r] # tf[r]
SaveStep(r) == tf[r].pc = "saveKycRecord" /\ tf'[r] # tf[r]
\* the txid of the anchor transaction created for a certificate
AnchorTxidOf(certificate) == certificate.fields.serialNumber
OutpointAgrees(frame) ==
  IF frame.anchorTx
    THEN /\ frame.certificate.revocationOutpoint # NullOutpoint
         /\ splitOutpoint(frame.certificate.revocationOutpoint)
              = <<AnchorTxidOf(frame.certificate), 0>>
    ELSE frame.certificate.revocationOutpoint = NullOutpoint

AnchorFailureNonFatal ==
  [][\A r \in TrustflowSlots :
       /\ AnchorStep(r) =>
            /\ tf'[r].pc = "saveKycRecord"
            /\ OutpointAgrees(tf'[r])
            /\ UNCHANGED <<kyc, issued>>
       /\ SaveStep(r) =>
            /\ tf'[r].pc = "done"
            /\ tf'[r].certificate = tf[r].certificate
            /\ OutpointAgrees(tf'[r])
            /\ \/ /\ tf'[r].status = 200
                  /\ kyc'[tf[r].authorization.subject].present
                  /\ kyc'[tf[r].authorization.subject].certificate = tf'[r].certificate
                  /\ tf'[r].certificate \in issued'
               \/ /\ tf'[r].status = 500
                  /\ UNCHANGED <<kyc, issued>>]_vars

\* a certificate issued and stored without an anchor
AnchorFailureWitness ==
  \E r \in TrustflowSlots :
    /\ tf[r].route = "verify" /\ tf[r].pc = "done" /\ tf[r].status = 200
    /\ ~ tf[r].anchorTx
    /\ tf[r].certificate.revocationOutpoint = NullOutpoint
    /\ kyc[tf[r].authorization.subject].certificate = tf[r].certificate

\* ------------------------------------------------------------------------
\* C19: the certificate createKycCertificate returns has expiresAt exactly
\* CERTIFICATE_VALIDITY_MS (24 hours) after issuedAt, issuedAt at the clock of
\* the call, revocationOutpoint null, the subject and certifier it was given
\* and sanctionsStatus as the screening's outcome, and a serial number no
\* earlier issuance carries. The dates keep that distance in every certificate
\* the exchange has issued.
\* ------------------------------------------------------------------------
CreateStep(r) == tf[r].pc = "checkSanctions" /\ tf'[r].pc = "createRevocationAnchor"
ValidityWindowExact(certificate) ==
  /\ parseDate(certificate.fields.issuedAt) # NaN
  /\ parseDate(certificate.fields.expiresAt) # NaN
  /\ parseDate(certificate.fields.expiresAt)
       = parseDate(certificate.fields.issuedAt) + 24 * 60 * 60 * 1000

CertificateAsConstructed ==
  [][\A r \in TrustflowSlots :
       /\ CreateStep(r) =>
            LET certificate == tf'[r].certificate
            IN /\ certificate.present
               /\ ValidityWindowExact(certificate)
               /\ parseDate(certificate.fields.issuedAt) = now
               /\ certificate.revocationOutpoint = NullOutpoint
               /\ certificate.subject = tf[r].authorization.subject
               /\ certificate.certifier = ServerIdentityKey
               /\ certificate.fields.officialName = tf[r].authorization.officialName
               /\ certificate.fields.sanctionsStatus
                    = (IF tf'[r].sanctionsResult.sanctioned THEN "matched" ELSE "clear")
               /\ \A c \in issued : c.fields.serialNumber # certificate.fields.serialNumber
       /\ \A c \in issued' : ValidityWindowExact(c)]_vars

\* two certificates issued at different times, under different serial numbers
TwoIssuancesWitness ==
  \E c1, c2 \in issued :
    /\ c1.fields.serialNumber # c2.fields.serialNumber
    /\ parseDate(c1.fields.issuedAt) # parseDate(c2.fields.issuedAt)
    /\ c1.fields.sanctionsStatus # c2.fields.sanctionsStatus

\* ------------------------------------------------------------------------
\* C20: converting N > 0 base units with bsv-to-usd and the resulting dollar
\* amount back with usd-to-bsv gives N base units again (a loss strictly
\* smaller than one base unit leaves the whole number N); 100000 units give
\* 100000.
\* ------------------------------------------------------------------------
\* the request converts back the dollars that n base units came to
ConvertsBack(frame, n) ==
  /\ frame.direction = "usd-to-bsv"
  /\ frame.pc \in {"swapUsdToBsv", "done"}
  /\ frame.status \in {0, 200, 500}
  /\ frame.amount = usdAmountOf(n)

SwapRoundTrip ==
  \A r \in SwapSlots : \A n \in SwapUnits :
    ConvertsBack(sw[r], n) =>
      /\ sw[r].satoshis <= n
      /\ n - sw[r].satoshis < 1

\* the spec's example: 100000 base units come back as 100000
SwapExampleWitness ==
  \E r \in SwapSlots :
    /\ ConvertsBack(sw[r], 100000)
    /\ sw[r].status = 200
    /\ sw[r].satoshis = 100000

\* ------------------------------------------------------------------------
\* C21: a POST /swap whose direction is neither bsv-to-usd nor usd-to-bsv, or
\* whose amount is no number, not positive or not finite, is answered as
\* invalid before the store is called; every swap handed to the store has a
\* strictly positive, finite amount on its debit leg (satoshis for bsv-to-usd,
\* dollars for usd-to-bsv).
\* ------------------------------------------------------------------------
ReachedStore(frame) ==
  \/ frame.pc \in {"swapBsvToUsd", "swapUsdToBsv"}
  \/ frame.pc = "done" /\ frame.status \in {200, 500}

SwapRejectsInvalid ==
  \A r \in SwapSlots :
    LET frame == sw[r]
    IN /\ frame.pc = "done" /\ frame.status \in {400, 401} =>
            /\ frame.satoshis = 0
            /\ frame.usdAmount = ZeroNumber
       /\ ReachedStore(frame) =>
            /\ frame.direction \in {"bsv-to-usd", "usd-to-bsv"}
            /\ frame.amount.kind = "positive"
            /\ frame.direction = "bsv-to-usd" =>
                 frame.satoshis > 0 /\ frame.satoshis # InfiniteUnits
            /\ frame.direction = "usd-to-bsv" => frame.usdAmount.kind = "positive"

\* ------------------------------------------------------------------------
\* C22: under racing POST /withdraw requests of one identity, a request that
\* has ended and whose wallet.createAction succeeded has debited the ledger by
\* its amount: no payment is constructed without its debit.
\* ------------------------------------------------------------------------
ConstructedPaymentsDebited ==
  \A r \in WithdrawSlots :
    wd[r].pc = "done" /\ wd[r].constructed => wd[r].debitedAmount = wd[r].amount

\* ------------------------------------------------------------------------
\* C23: LocalKVStore BalanceStorage: for every interleaving of concurrent
\* addBalance and subtractBalance calls on one identity no update is lost:
\* once every call has returned or thrown, the stored balance is the initial
\* balance plus the credits of the returned addBalance calls minus the debits
\* of the returned subtractBalance calls; and the returned debits never exceed
\* the initial balance plus the credits.
\* ------------------------------------------------------------------------
KvQuiet == \A c \in Callers : kvCalls[c].pc \in {"idle", "returned", "thrown"}

KvNoLostUpdate ==
  \A i \in Identities :
    /\ debited[i] <= initial[i] + credited[i]
    /\ KvQuiet => kvGetBalance(kvStore, i, TRUE) = initial[i] + credited[i] - debited[i]

\* ------------------------------------------------------------------------
\* C24: ledger conservation behind POST /deposit and POST /withdraw: a step
\* changes a balance only when it answers a deposit with success (the balance
\* grows by the deposit's amount) or a withdrawal with success (it shrinks by
\* the withdrawal's amount); so whenever no request is in flight each balance
\* is the sum of its successful deposits minus the sum of its successful
\* withdrawals.
\* ------------------------------------------------------------------------
DepositSucceeds(r) == dep[r].pc # "done" /\ dep'[r].pc = "done" /\ dep'[r].status = 200
WithdrawSucceeds(r) == wd[r].pc # "done" /\ wd'[r].pc = "done" /\ wd'[r].status = 200
NothingInFlight ==
  /\ \A r \in DepositSlots : dep[r].pc \in {"idle", "done"}
  /\ \A r \in WithdrawSlots : wd[r].pc \in {"idle", "done"}

\* what a step does to the balances
BalancesFollowResponses ==
  \/ \E r \in DepositSlots :
       /\ DepositSucceeds(r)
       /\ \A i \in Identities :
            getBalance(balances', i) = getBalance(balances, i) +
              (IF i = dep'[r].identityKey THEN dep'[r].transaction.satoshis ELSE 0)
  \/ \E r \in WithdrawSlots :
       /\ WithdrawSucceeds(r)
       /\ \A i \in Identities :
            getBalance(balances', i) = getBalance(balances, i) -
              (IF i = wd'[r].identityKey THEN wd'[r].amount ELSE 0)
  \/ /\ \A r \in DepositSlots : ~ DepositSucceeds(r)
     /\ \A r \in WithdrawSlots : ~ WithdrawSucceeds(r)
     /\ \A i \in Identities : getBalance(balances', i) = getBalance(balances, i)

LedgerConservation ==
  [][/\ BalancesFollowResponses
     /\ NothingInFlight =>
          \A i \in Identities : getBalance(balances, i) = credited[i] - debited[i]]_vars

\* a deposit and a withdrawal of the same identity were in flight together and
\* both were answered with success
ConservationWitness ==
  \E r \in DepositSlots, q \in WithdrawSlots :
    /\ dep[r].pc = "done" /\ dep[r].status = 200
    /\ wd[q].pc = "done" /\ wd[q].status = 200
    /\ wd[q].identityKey = dep[r].identityKey
    /\ getBalance(balances, dep[r].identityKey) = credited[dep[r].identityKey] - debited[dep[r].identityKey]

\* ------------------------------------------------------------------------
\* C25: a freshly issued certificate is not revoked: when POST /trustflow/verify
\* succeeds with a clear sanctions outcome the subject's stored record is not
\* flagged revoked, and GET /kyc/status answers verified with canDeposit for a
\* record whose certificate is clear, unexpired and was never revoked itself,
\* also after an earlier certificate of the subject was revoked.
\* ------------------------------------------------------------------------
KycStatusAnswers(q) == st[q].pc = "determineStatus" /\ st'[q].pc = "done"
NeverRevoked(certificate) == certificate.fields.serialNumber \notin revokedOk

FreshCertificateNotRevoked ==
  [][/\ \A r \in TrustflowSlots :
          (SaveStep(r) /\ tf'[r].status = 200 /\ ~ tf[r].sanctionsResult.sanctioned) =>
            ~ kyc'[tf[r].authorization.subject].revoked
     /\ \A q \in StatusSlots :
          (/\ KycStatusAnswers(q)
           /\ st'[q].record.present
           /\ NeverRevoked(st'[q].record.certificate)
           /\ st'[q].record.certificate.fields.sanctionsStatus = "clear"
           /\ st'[q].answeredAt <= st'[q].record.certificate.fields.expiresAt.ms) =>
            (st'[q].kycStatus = "verified" /\ st'[q].canDeposit)]_vars

\* ------------------------------------------------------------------------
\* C26: the status query reflects revocation: a GET /trustflow/status/:serialNumber
\* that arrives after POST /trustflow/revoke/:serialNumber returned success for
\* that serial number is answered with revoked = true (a failing store aside).
\* ------------------------------------------------------------------------
StatusReflectsRevocation ==
  \A q \in StatusSlots :
    (/\ st[q].route = "trustflow/status"
     /\ st[q].pc = "done"
     /\ st[q].revokedBefore
     /\ st[q].status # 500) =>
      (st[q].status = 200 /\ st[q].revoked)

\* ------------------------------------------------------------------------
\* C29: GET /kyc/status answers canDeposit = true exactly when the record it
\* read is present, not flagged revoked, not expired and clear; otherwise the
\* status is revoked, else expired, else sanctioned, and not_verified when
\* there is no record.
\* ------------------------------------------------------------------------
KycStatusAnswered(frame) ==
  frame.route = "kyc/status" /\ frame.pc = "done" /\ frame.status \in {200, 404}
ExpiredWhenAnswered(frame) == frame.answeredAt > frame.record.certificate.fields.expiresAt.ms

KycStatusPriority ==
  \A q \in StatusSlots :
    KycStatusAnswered(st[q]) =>
      LET frame == st[q]
          record == frame.record
          clear == record.certificate.fields.sanctionsStatus = "clear"
      IN /\ frame.canDeposit <=>
              (record.present /\ ~ record.revoked /\ ~ ExpiredWhenAnswered(frame) /\ clear)
         /\ frame.kycStatus =
              (IF ~ record.present THEN "not_verified"
               ELSE IF record.revoked THEN "revoked"
               ELSE IF ExpiredWhenAnswered(frame) THEN "expired"
               ELSE IF ~ clear THEN "sanctioned"
               ELSE "verified")

\* the status of a record that is both expired and sanctioned was answered
KycStatusPriorityWitness ==
  \E q \in StatusSlots :
    /\ KycStatusAnswered(st[q])
    /\ st[q].record.present /\ ~ st[q].record.revoked
    /\ ExpiredWhenAnswered(st[q])
    /\ st[q].record.certificate.fields.sanctionsStatus = "matched"
    /\ st[q].kycStatus = "expired"

\* ------------------------------------------------------------------------
\* C27: the issuance gate of POST /trustflow/verify: the request goes on to the
\* sanctions screening only when the authorization's verifier is the exchange,
\* its subject is the requester, its timestamp is within 5 minutes of the
\* clock and the signature check passes; otherwise it is answered 400 with the
\* error of the first check that fails, in that order. The certificate is
\* created only from the screening, the anchor only after the certificate,
\* the record is written only after the anchor, and a step that does not end
\* the save leaves the certificate store as it was.
\* ------------------------------------------------------------------------
GateStep(r) == tf[r].route = "verify" /\ tf[r].pc = "getIdentityKey" /\ tf'[r].status # 500 /\ tf'[r] # tf[r]
VerifierIsExchange(frame) == frame.authorization.verifier = ServerIdentityKey
SubjectIsRequester(frame) == frame.authorization.subject = frame.identityKey
TimestampRecent(frame, clock) ==
  /\ (clock \div 1000) - frame.authorization.timestamp <= 300
  /\ frame.authorization.timestamp - (clock \div 1000) <= 300
SignaturePasses(frame) == frame.signatureLength >= 10

BalancesIntegral ==
  \A i \in Identities :
    getBalance(balances, i) >= 0 /\ isInteger(getBalance(balances, i))

\* ------------------------------------------------------------------------
\* C30: the sanctions lookup fails open: while the sanctions service throws or
\* answers a non-OK status, checkSanctions answers sanctioned = false from the
\* "unavailable" source without raising, POST /trustflow/verify issues
\* certificates with sanctionsStatus "clear", and the sanctions re-screen of
\* POST /deposit does not block a deposit presenting such a certificate.
\* ------------------------------------------------------------------------
SanctionsFailOpen ==
  /\ \A r \in TrustflowSlots :
       tf[r].certificate.present =>
         /\ ~ tf[r].sanctionsResult.sanctioned
         /\ tf[r].sanctionsResult.source = "opensanctions-yente (unavailable)"
         /\ tf[r].certificate.fields.sanctionsStatus = "clear"
  /\ \A c \in issued : c.fields.sanctionsStatus = "clear"
  /\ \A r \in DepositSlots :
       dep[r].certificate \in issued =>
         dep[r].error # "Deposit blocked: User appears on sanctions list"

====
